---------------------------- MODULE Spec2Model ----------------------------
(***************************************************************************)
(* A model of the peggysue PEG engine (lab47/peggysue): the rule nodes     *)
(* and their match methods (peggysue.go, optz.go), the memoizing and       *)
(* left-recursive reference, the scope of named values, the left-recursion *)
(* detector run by Ref.Set, and the Parse driver.                          *)
(*                                                                         *)
(* The recursive descent of the Go code is modelled with an explicit call  *)
(* stack: a frame is one activation of a match method, and one step of the *)
(* model runs a match method from where it is (its entry, or the return of *)
(* the sub-rule it called) to its next call of a sub-rule or to its        *)
(* return.  Rule nodes live in a heap (a sequence of node records); a rule *)
(* is the index of its node, so that pointer identity in Go is index       *)
(* identity here.  Input is a sequence of bytes (numbers 0..255).          *)
(***************************************************************************)
EXTENDS Integers, Sequences, FiniteSets, TLC

(***************************************************************************)
(* Bounds of the model.                                                    *)
(***************************************************************************)
\* inputs of every length up to MaxLen over a grammar's alphabet are parsed
MaxLen == 3
\* the deepest call stack; a deeper recursion ends the run as a stack overflow
MaxDepth == 14
\* the largest use count a memo entry is let to reach
MaxUsed == 6

(***************************************************************************)
(* Values.  A Go interface{} value is a tagged tuple; nil is the empty     *)
(* tuple.  <<"int", n>> is an int, <<"str", bytes>> a string,              *)
(* <<"op", lhs, op, rhs>> the op struct of the tests, <<"node", n, s, e>>  *)
(* a *testIntNode with its recorded position, <<"plus", i, j, s, e>> a     *)
(* *testPlusNode, <<"list", values>> a []interface{}.                      *)
(***************************************************************************)
NIL == <<>>

\* the bytes of input from offset p (0-based): s.input[s.pos:]
Cur(inp, p) == SubSeq(inp, p + 1, Len(inp))

\* s.input[a:b]
Slice(inp, a, b) == SubSeq(inp, a + 1, b)

\* strings.HasPrefix(s, prefix)
HasPrefix(s, prefix) ==
    /\ Len(prefix) <= Len(s)
    /\ SubSeq(s, 1, Len(prefix)) = prefix

IsDigit(b) == b >= 48 /\ b <= 57

\* strconv.Atoi with the error dropped: 0 unless the string is a decimal number
RECURSIVE DigitsValue(_)
DigitsValue(s) ==
    IF s = <<>> THEN 0
    ELSE 10 * DigitsValue(SubSeq(s, 1, Len(s) - 1)) + (s[Len(s)] - 48)

Atoi(s) ==
    IF s # <<>> /\ \A i \in 1..Len(s) : IsDigit(s[i]) THEN DigitsValue(s) ELSE 0

\* the length of the longest prefix of s made of digits: what the anchored
\* regexp \A[0-9]+ matches (0: no match)
RECURSIVE DigitPrefix(_)
DigitPrefix(s) ==
    IF s # <<>> /\ IsDigit(s[1]) THEN 1 + DigitPrefix(Tail(s)) ELSE 0

\* utf8.DecodeRuneInString(s): the size of the first rune of the non-empty s
\* (an invalid or truncated encoding has size 1)
Utf8Size(s) ==
    LET b0 == s[1]
        need == IF b0 >= 194 /\ b0 <= 223 THEN 2
                ELSE IF b0 >= 224 /\ b0 <= 239 THEN 3
                ELSE IF b0 >= 240 /\ b0 <= 244 THEN 4
                ELSE 1
        lo1 == IF b0 = 224 THEN 160 ELSE IF b0 = 240 THEN 144 ELSE 128
        hi1 == IF b0 = 237 THEN 159 ELSE IF b0 = 244 THEN 143 ELSE 191
        cont(i) == s[i] >= 128 /\ s[i] <= 191
    IN  IF need = 1 \/ Len(s) < need THEN 1
        ELSE IF s[2] < lo1 \/ s[2] > hi1 THEN 1
        ELSE IF need = 2 THEN 2
        ELSE IF ~cont(3) THEN 1
        ELSE IF need = 3 THEN 3
        ELSE IF ~cont(4) THEN 1
        ELSE 4

\* the rune the terminals compare: the byte itself below utf8.RuneSelf, else
\* a number above every ASCII rune (the model's grammars name ASCII runes only)
RuneAt(inp, p) == IF inp[p + 1] < 128 THEN inp[p + 1] ELSE 65533

\* the size the rune terminals advance by
RuneSize(inp, p) == IF inp[p + 1] < 128 THEN 1 ELSE Utf8Size(Cur(inp, p))


(***************************************************************************)
(* Rule nodes and the public constructors.  A node is a record; a          *)
(* constructor takes the heap t built so far and returns the heap with the *)
(* node it allocates appended, so the rule it returns is Len of the result *)
(* (Or and Seq of one rule allocate nothing and return that rule).         *)
(*   kind   the Go type of the node                                        *)
(*   rules  the sub-rules (one for the unary wrappers)                     *)
(*   str    the literal of S, the runes of Set, the keys of PrefixTable    *)
(*   name   the name of a Named or a Ref                                   *)
(*   fn     the Go function (or regexp, or record type) the node carries,  *)
(*          "" for a nil function                                          *)
(*   lo, hi the bounds of Range, min and max of Many                       *)
(***************************************************************************)
Node(kind) ==
    [kind |-> kind, rules |-> <<>>, str |-> <<>>, name |-> "", fn |-> "",
     lo |-> 0, hi |-> 0]

Unary(kind, rule) == [Node(kind) EXCEPT !.rules = <<rule>>]

\* Any() (the name Any is taken by the TLC module)
AnyRule(t) == Append(t, Node("matchAny"))

S(t, str) ==
    Append(t, [Node(IF Len(str) = 1 THEN "matchString1"
                    ELSE IF Len(str) = 2 THEN "matchString2"
                    ELSE "matchString") EXCEPT !.str = str])

Re(t, re) == Append(t, [Node("matchRegexp") EXCEPT !.fn = re])

Range(t, start, end) ==
    Append(t, [Node("matchCharRange") EXCEPT !.lo = start, !.hi = end])

Set(t, runes) == Append(t, [Node("matchCharSet") EXCEPT !.str = runes])

Rune(t, fn) == Append(t, [Node("matchRunePredicate") EXCEPT !.fn = fn])

Or(t, rules) ==
    IF Len(rules) = 1 THEN t
    ELSE Append(t, [Node(IF Len(rules) = 2 THEN "matchEither" ELSE "matchOr")
                      EXCEPT !.rules = rules])

\* the matchBranch node of Branches(name, f), built once f has added the
\* alternatives; ref is the Ref that Branches made with R(name) and hands to f
MatchBranch(t, ref, rules) ==
    Append(t, [Node("matchBranch") EXCEPT !.rules = rules, !.lo = ref])

\* Seq(rules...) (the name Seq is taken by the Sequences module)
SeqRule(t, rules) ==
    IF Len(rules) = 1 THEN t
    ELSE Append(t, [Node(IF Len(rules) = 2 THEN "matchBoth"
                         ELSE IF Len(rules) = 3 THEN "matchThree"
                         ELSE "matchSeq") EXCEPT !.rules = rules])

Star(t, rule) == Append(t, Unary("matchZeroOrMore", rule))

Plus(t, rule) == Append(t, Unary("matchOneOrMore", rule))

Many(t, rule, min, max, fn) ==
    Append(t, [Unary("matchMany", rule) EXCEPT !.lo = min, !.hi = max, !.fn = fn])

Maybe(t, rule) == Append(t, Unary("matchOptional", rule))

Check(t, rule) == Append(t, Unary("matchCheck", rule))

Not(t, rule) ==
    IF t[rule].kind = "matchString1"
    THEN Append(t, [Node("matchNotByte") EXCEPT !.str = t[rule].str])
    ELSE Append(t, Unary("matchNot", rule))

\* R(name): an unbound Ref (its rule and leftRec fields are the variables
\* refRule and leftRec)
R(t, name) == Append(t, [Node("matchRef") EXCEPT !.name = name])

\* Action(r, fn): a matchAction inside a matchScope
Action(t, r, fn) ==
    t \o << [Unary("matchAction", r) EXCEPT !.fn = fn],
            Unary("matchScope", Len(t) + 1) >>

\* Apply(rule, v): a matchApply inside a matchScope; typ names the struct type
Apply(t, rule, typ) ==
    t \o << [Unary("matchApply", rule) EXCEPT !.fn = typ],
            Unary("matchScope", Len(t) + 1) >>

Scope(t, rule) == Append(t, Unary("matchScope", rule))

Named(t, name, rule) == Append(t, [Unary("matchNamed", rule) EXCEPT !.name = name])

Transform(t, r, fn) == Append(t, [Unary("matchTransform", r) EXCEPT !.fn = fn])

Capture(t, r) == Append(t, Unary("matchCapture", r))

\* CheckAction(fn): the rule field of the node is left nil
CheckAction(t, fn) == Append(t, [Node("matchCheckAction") EXCEPT !.fn = fn])

EOS(t) == Append(t, Node("matchEOS"))

Scan(t, fn) == Append(t, [Node("matchScan") EXCEPT !.fn = fn])

\* PrefixTable(k1, r1, k2, r2, ...): keys[i] is the byte that selects rules[i]
PrefixTable(t, keys, rules) ==
    Append(t, [Node("matchPrefixTable") EXCEPT !.str = keys, !.rules = rules])

(***************************************************************************)
(* The scope of named values (Values): compactedValues, a record of        *)
(* at most CompactCap entries in the order they were set, and valMap, a    *)
(* map.  A scope is [cv, ents, map]: cv tells which of the two it is.      *)
(***************************************************************************)
CompactCap == 5

EmptyMap == [n \in {} |-> NIL]

\* a compactedValues fresh from cvPool (used = 0)
NewValues == [cv |-> TRUE, ents |-> <<>>, map |-> EmptyMap]

\* valMap.set
MapSet(m, name, val) == [n \in DOMAIN m \cup {name} |-> IF n = name THEN val ELSE m[n]]

\* compactedValues.set and valMap.set: [ok, v], ok = FALSE when the compact
\* form is full (and v is then unchanged)
ValuesSet(v, name, val) ==
    IF v.cv
    THEN IF Len(v.ents) >= CompactCap
         THEN [ok |-> FALSE, v |-> v]
         ELSE [ok |-> TRUE, v |-> [v EXCEPT !.ents = Append(@, <<name, val>>)]]
    ELSE [ok |-> TRUE, v |-> [v EXCEPT !.map = MapSet(@, name, val)]]

\* compactedValues.Get (the first entry of that name) and valMap.Get
ValuesGet(v, name) ==
    IF v.cv
    THEN LET hits == {i \in 1..Len(v.ents) : v.ents[i][1] = name}
         IN  IF hits = {} THEN NIL
             ELSE v.ents[CHOOSE i \in hits : \A j \in hits : i <= j][2]
    ELSE IF name \in DOMAIN v.map THEN v.map[name] ELSE NIL

\* the valMap matchNamed builds when set fails: the entries copied in order,
\* then the new one
RECURSIVE CopyEntries(_, _)
CopyEntries(ents, m) ==
    IF ents = <<>> THEN m
    ELSE CopyEntries(Tail(ents), MapSet(m, Head(ents)[1], Head(ents)[2]))

\* a promotion that copies the entries and drops the new one (a faulty
\* variant)
PromoteCopyOnly(v, name, val) ==
    [cv |-> FALSE, ents |-> <<>>, map |-> CopyEntries(v.ents, EmptyMap)]

Promote(v, name, val) ==
    [cv |-> FALSE, ents |-> <<>>,
     map |-> MapSet(CopyEntries(v.ents, EmptyMap), name, val)]

\* s.values after matchNamed has stored (name, val) in it
NamedSet(v, name, val) ==
    LET r == ValuesSet(v, name, val)
    IN  IF r.ok THEN r.v ELSE Promote(v, name, val)

(***************************************************************************)
(* The Go functions the grammars of the model carry, by name.  PANIC is    *)
(* the outcome of a function that panics (a failed type assertion, an      *)
(* index out of range).                                                    *)
(***************************************************************************)
PANIC == <<"panic">>

Tag(v) == IF v = NIL THEN "nil" ELSE v[1]

\* whether a value implements SetPositioner (the test nodes do)
IsPositioner(v) == Tag(v) \in {"node", "plus"}

\* sp.SetPosition(start, end) on a value that implements it
SetPosition(v, start, end) ==
    IF Tag(v) = "node" THEN <<"node", v[2], start, end>>
    ELSE IF Tag(v) = "plus" THEN <<"plus", v[2], v[3], start, end>>
    ELSE v

\* the functions given to Transform
TransformFn(fn, str) ==
    IF fn = "atoi" THEN <<"int", Atoi(str)>>
    ELSE IF fn = "intNode" THEN <<"node", Atoi(str), 0, 0>>
    ELSE IF fn = "nil" THEN NIL
    ELSE <<"str", str>>

\* the functions given to Action
ActionFn(fn, v) ==
    LET i == ValuesGet(v, "i")
        j == ValuesGet(v, "j")
    IN  IF fn = "add"
        THEN IF Tag(i) = "int" /\ Tag(j) = "int" THEN <<"int", i[2] + j[2]>> ELSE PANIC
        ELSE IF fn = "plusNode"
        THEN IF Tag(i) = "node" /\ Tag(j) = "node" THEN <<"plus", i, j, 0, 0>> ELSE PANIC
        ELSE IF fn = "mkop"
        THEN IF Tag(ValuesGet(v, "op")) = "str"
             THEN <<"op", ValuesGet(v, "lhs"), ValuesGet(v, "op"), ValuesGet(v, "rhs")>>
             ELSE PANIC
        ELSE IF fn = "getI" THEN i
        ELSE <<"int", 1>>

\* the functions given to CheckAction: "true", "false" or "panic"
CheckFn(fn, v) ==
    LET p == ValuesGet(v, "prefix")
    IN  IF fn = "prefixIsF"
        THEN IF Tag(p) = "str" /\ p[2] # <<>>
             THEN (IF p[2][1] = 102 THEN "true" ELSE "false")
             ELSE "panic"
        ELSE IF ValuesGet(v, "i") = NIL THEN "true" ELSE "false"

\* the predicates given to Rune
RuneFn(fn, rn) == IF fn = "isDigit" THEN IsDigit(rn) ELSE rn = 97

\* the scanners given to Scan, applied to the remaining input: "untilB" is
\* the toolkit's string scanner with 'b' as the closing quote, "two" claims
\* two bytes whatever remains, "zero" none, "never" fails
RECURSIVE IndexOf(_, _)
IndexOf(str, b) ==
    IF str = <<>> THEN 0
    ELSE IF Head(str) = b THEN 0
    ELSE 1 + IndexOf(Tail(str), b)

ScanFn(fn, str) ==
    IF fn = "untilB"
    THEN IF str # <<>> /\ Head(str) = 98 THEN -1 ELSE IndexOf(str, 98)
    ELSE IF fn = "two" THEN 2
    ELSE IF fn = "zero" THEN 0
    ELSE -1

\* the functions given to Many, applied to the collected values
ManyFn(fn, results) ==
    IF fn = "" THEN NIL
    ELSE IF fn = "count" THEN <<"int", Len(results)>>
    ELSE <<"list", results>>

\* the regexps given to Re, matched at the start of str: the end of the
\* match, or -1 when FindStringIndex returns nil
RegexpEnd(re, str) ==
    IF re = "[0-9]+" THEN (IF DigitPrefix(str) = 0 THEN -1 ELSE DigitPrefix(str))
    ELSE \* "[0-9]*"
         DigitPrefix(str)

(***************************************************************************)
(* The left-recursion detector.  h is the heap, rr the rule field of every *)
(* Ref (0: nil), r the Ref looked for, rs the ruleSet of visited rules     *)
(* (0 stands for a nil Rule put in the set).  The result is                *)
(* [found, rs, panic]: what detectLeftRec returns, the ruleSet as it left  *)
(* it, and whether it panicked on a nil rule.  rev tells the order in      *)
(* which Go happens to range over the map of a matchPrefixTable.           *)
(***************************************************************************)
Reverse(s) == [i \in 1..Len(s) |-> s[Len(s) + 1 - i]]

UnaryKinds ==
    {"matchZeroOrMore", "matchOneOrMore", "matchMany", "matchOptional",
     "matchCheck", "matchNot", "matchAction", "matchApply", "matchScope",
     "matchNamed", "matchTransform", "matchCapture"}

RECURSIVE DetectLeftRec(_, _, _, _, _, _)
RECURSIVE DetectSubs(_, _, _, _, _, _)

\* the loop the nodes with sub-rules share: for each sub in order, return
\* false if rs.Add(sub) finds it visited, true if it is r or reaches r
DetectSubs(h, rr, subs, r, rs, rev) ==
    IF subs = <<>> THEN [found |-> FALSE, rs |-> rs, panic |-> FALSE]
    ELSE LET sub == Head(subs)
         IN  IF sub \in rs THEN [found |-> FALSE, rs |-> rs, panic |-> FALSE]
             ELSE IF sub = r
             THEN [found |-> TRUE, rs |-> rs \cup {sub}, panic |-> FALSE]
             ELSE LET d == DetectLeftRec(h, rr, sub, r, rs \cup {sub}, rev)
                  IN  IF d.found \/ d.panic THEN d
                      ELSE DetectSubs(h, rr, Tail(subs), r, d.rs, rev)

\* matchRef.detectLeftRec: the rule of the Ref, which may be nil
DetectRef(h, rr, m, r, rs, rev) ==
    IF rr[m] \in rs THEN [found |-> FALSE, rs |-> rs, panic |-> FALSE]
    ELSE IF rr[m] = r THEN [found |-> TRUE, rs |-> rs \cup {rr[m]}, panic |-> FALSE]
    ELSE IF rr[m] = 0 THEN [found |-> FALSE, rs |-> rs \cup {0}, panic |-> FALSE]
    ELSE DetectLeftRec(h, rr, rr[m], r, rs \cup {rr[m]}, rev)

\* matchCheckAction.detectLeftRec: m.rule is nil, and calling its
\* detectLeftRec panics
DetectCheckAction(rs) ==
    IF 0 \in rs THEN [found |-> FALSE, rs |-> rs, panic |-> FALSE]
    ELSE [found |-> FALSE, rs |-> rs \cup {0}, panic |-> TRUE]

DetectLeftRec(h, rr, m, r, rs, rev) ==
    LET k == h[m].kind
    IN  IF k \in {"matchOr", "matchEither", "matchBranch", "matchBoth", "matchThree"}
        THEN DetectSubs(h, rr, h[m].rules, r, rs, rev)
        ELSE IF k = "matchPrefixTable"
        THEN DetectSubs(h, rr, IF rev THEN Reverse(h[m].rules) ELSE h[m].rules, r, rs, rev)
        ELSE IF k = "matchSeq" THEN DetectSubs(h, rr, <<h[m].rules[1]>>, r, rs, rev)
        ELSE IF k \in UnaryKinds THEN DetectSubs(h, rr, h[m].rules, r, rs, rev)
        ELSE IF k = "matchRef" THEN DetectRef(h, rr, m, r, rs, rev)
        ELSE IF k = "matchCheckAction" THEN DetectCheckAction(rs)
        ELSE [found |-> FALSE, rs |-> rs, panic |-> FALSE]

(***************************************************************************)
(* The grammars the model parses with.  Each is the heap its constructor   *)
(* calls build (the comment of a line gives the index of the rule the call *)
(* returns), the calls of Set the program makes, in order (a script; a     *)
(* grammar may come with several), the rules handed to Parse, and the      *)
(* inputs: every byte string over alpha of length at most MaxLen, and      *)
(* those of extra.  Bytes: '0'..'9' = 48..57, '+' 43, '-' 45, '*' 42,      *)
(* '!' 33, '(' 40, 'a' 97, 'b' 98, 'f' 102, 'l' 108, 'o' 111, 'r' 114.     *)
(***************************************************************************)
SetStmt(ref, body) == [ref |-> ref, body |-> body, via |-> "Ref.Set"]

LabelsSetStmt(ref, body) == [ref |-> ref, body |-> body, via |-> "Labels.Set"]

\* Or(S("foo"), S("foobar")) and the rules of the first tests
GChoice ==
    [name |-> "choice",
     heap |-> (
      LET t1 == S(<<>>, <<102, 111, 111>>)                   \* 1 S("foo")
          t2 == S(t1, <<102, 111, 111, 98, 97, 114>>)        \* 2 S("foobar")
          t3 == Or(t2, <<1, 2>>)                             \* 3 Or(foo, foobar)
          t4 == S(t3, <<98>>)                                \* 4 S("b")
          t5 == S(t4, <<102, 111>>)                          \* 5 S("fo")
          t6 == Or(t5, <<4, 5, 1>>)                          \* 6 Or(b, fo, foo)
          t7 == Star(t6, 1)                                  \* 7 Star(foo)
          t8 == Maybe(t7, 1)                                 \* 8 Maybe(foo)
      IN  SeqRule(t8, <<5, 8>>)                              \* 9 Seq(fo, Maybe(foo))
     ),
     scripts |-> {<<>>},
     roots |-> {1, 3, 6, 7, 8, 9}, alpha |-> {102, 111},
     extra |-> {<<102, 111, 111, 98, 97, 114>>, <<98, 108, 97, 104>>}]

\* the grammar of "tracks the furthest it got"
GFurthest ==
    [name |-> "furthest",
     heap |-> (
      LET t1 == Range(<<>>, 48, 57)                          \* 1 Range('0','9')
          t2 == Plus(t1, 1)                                  \* 2 num
          t3 == S(t2, <<45>>)                                \* 3 S("-")
          t4 == SeqRule(t3, <<2, 3, 2>>)                     \* 4
          t5 == S(t4, <<43>>)                                \* 5 S("+")
          t6 == SeqRule(t5, <<2, 5, 2>>)                     \* 6
          t7 == S(t6, <<42>>)                                \* 7 S("*")
          t8 == S(t7, <<50>>)                                \* 8 S("2")
          t9 == SeqRule(t8, <<2, 7, 8>>)                     \* 9
      IN  Or(t9, <<4, 6, 9>>)                                \* 10 calc
     ),
     scripts |-> {<<>>},
     roots |-> {10}, alpha |-> {51, 42},
     extra |-> {<<51, 42, 52>>, <<51, 42, 50>>, <<51, 43, 52>>}]

\* the grammar of "a simple calculator": x is directly left-recursive
GCalc ==
    [name |-> "calc",
     heap |-> (
      LET t1 == Range(<<>>, 48, 57)                          \* 1
          t2 == Plus(t1, 1)                                  \* 2
          t3 == Transform(t2, 2, "atoi")                     \* 3 num
          t4 == R(t3, "x")                                   \* 4 x
          t5 == Named(t4, "i", 4)                            \* 5
          t6 == S(t5, <<43>>)                                \* 6 S("+")
          t7 == Named(t6, "j", 3)                            \* 7
          t8 == SeqRule(t7, <<5, 6, 7>>)                     \* 8
          t10 == Action(t8, 8, "add")                        \* 9 matchAction, 10 Action
          t11 == Or(t10, <<10, 3>>)                          \* 11 the body of x
          t12 == EOS(t11)                                    \* 12
      IN  SeqRule(t12, <<4, 12>>)                            \* 13 Seq(x, EOS())
     ),
     scripts |-> {<<SetStmt(4, 11)>>},
     roots |-> {13, 4}, alpha |-> {49, 43},
     extra |-> {<<49, 43, 50, 43, 51>>, <<51, 43, 52>>, <<51>>}]

\* the grammar of "precendence": Branches("e", ...) over numbers and + -
GBranches ==
    [name |-> "branches",
     heap |-> (
      LET t1 == Re(<<>>, "[0-9]+")                           \* 1
          t2 == Capture(t1, 1)                               \* 2 n
          t3 == R(t2, "e")                                   \* 3 the Ref of Branches
          t4 == Named(t3, "lhs", 3)                          \* 4
          t5 == Set(t4, <<43, 45>>)                          \* 5 Set('+','-')
          t6 == Capture(t5, 5)                               \* 6
          t7 == Named(t6, "op", 6)                           \* 7
          t8 == Named(t7, "rhs", 2)                          \* 8
          t9 == SeqRule(t8, <<4, 7, 8>>)                     \* 9
          t11 == Action(t9, 9, "mkop")                       \* 10 matchAction, 11 Action
      IN  MatchBranch(t11, 3, <<11, 2>>)                     \* 12 the matchBranch
     ),
     scripts |-> {<<SetStmt(3, 12)>>},
     roots |-> {3}, alpha |-> {49, 43},
     extra |-> {<<49, 43, 50, 43, 51>>, <<49, 45, 50>>}]

\* the grammars of "properly memoizes results" and of "can populate positions
\* on results"
GMemo ==
    [name |-> "memo",
     heap |-> (
      LET t1 == Range(<<>>, 48, 57)                          \* 1
          t2 == Plus(t1, 1)                                  \* 2
          t3 == Transform(t2, 2, "intNode")                  \* 3 num
          t4 == Named(t3, "i", 3)                            \* 4
          t5 == R(t4, "")                                    \* 5 i = Memo(Named("i", num))
          t6 == Named(t5, "j", 3)                            \* 6
          t7 == R(t6, "")                                    \* 7 j = Memo(Named("j", num))
          t8 == S(t7, <<45>>)                                \* 8 S("-")
          t9 == SeqRule(t8, <<5, 8, 7>>)                     \* 9
          t10 == S(t9, <<43>>)                               \* 10 S("+")
          t11 == SeqRule(t10, <<5, 10, 7>>)                  \* 11
          t12 == Or(t11, <<9, 11>>)                          \* 12
          t14 == Action(t12, 12, "plusNode")                 \* 13 matchAction, 14 calc
          t15 == Re(t14, "[0-9]+")                           \* 15 Re(`\d+`)
          t16 == Transform(t15, 15, "intNode")               \* 16 num
          t17 == Named(t16, "i", 16)                         \* 17
          t18 == Named(t17, "j", 16)                         \* 18
          t19 == SeqRule(t18, <<17, 10, 18>>)                \* 19
          t21 == Action(t19, 19, "plusNode")                 \* 20 matchAction, 21 calc
          t22 == SeqRule(t21, <<4, 8, 6>>)                   \* 22 9 with the Refs' rules
          t23 == SeqRule(t22, <<4, 10, 6>>)                  \* 23 11 likewise
          t24 == Or(t23, <<22, 23>>)                         \* 24
          t26 == Action(t24, 24, "plusNode")                 \* 25 matchAction, 26 calc
          t27 == SeqRule(t26, <<5, 8>>)                      \* 27 Seq(i, "-")
          t29 == Action(t27, 27, "getI")                     \* 28 matchAction, 29 Action
          t30 == SeqRule(t29, <<5, 10>>)                     \* 30 Seq(i, "+")
          t32 == Action(t30, 30, "getI")                     \* 31 matchAction, 32 Action
          t33 == Or(t32, <<29, 32>>)                         \* 33
          t34 == SeqRule(t33, <<4, 8>>)                      \* 34 27 with i's rule
          t36 == Action(t34, 34, "getI")                     \* 35 matchAction, 36 Action
          t37 == SeqRule(t36, <<4, 10>>)                     \* 37 30 with i's rule
          t39 == Action(t37, 37, "getI")                     \* 38 matchAction, 39 Action
      IN  Or(t39, <<36, 39>>)                                \* 40
     ),
     scripts |-> {<<SetStmt(5, 4), SetStmt(7, 6)>>},
     roots |-> {14, 5, 21, 33}, alpha |-> {51, 43},
     extra |-> {<<51, 43, 52>>, <<51, 45, 52>>}]

\* the grammars of "parses a check" and "parses a not"
GPreds ==
    [name |-> "preds",
     heap |-> (
      LET t1 == S(<<>>, <<102, 111, 111>>)                   \* 1 S("foo")
          t2 == S(t1, <<98, 108, 97, 104>>)                  \* 2 S("blah")
          t3 == Or(t2, <<1, 2>>)                             \* 3
          t4 == S(t3, <<102>>)                               \* 4 S("f")
          t5 == Check(t4, 4)                                 \* 5 Check(S("f"))
          t6 == SeqRule(t5, <<5, 3>>)                        \* 6 Seq(Check(f), foo|blah)
          t7 == S(t6, <<98>>)                                \* 7 S("b")
          t8 == Not(t7, 7)                                   \* 8 Not(S("b")): matchNotByte
          t9 == SeqRule(t8, <<8, 1>>)                        \* 9 Seq(Not(b), foo)
          t10 == S(t9, <<102, 111>>)                         \* 10 S("fo")
          t11 == Not(t10, 10)                                \* 11 Not(S("fo")): matchNot
          t12 == AnyRule(t11)                                \* 12 Any()
          t13 == SeqRule(t12, <<11, 12>>)                    \* 13 Seq(Not(fo), Any())
          t14 == Capture(t13, 10)                            \* 14 Capture(S("fo"))
          t15 == Check(t14, 14)                              \* 15 Check(Capture(fo))
          t16 == Not(t15, 14)                                \* 16 Not(Capture(fo))
          t17 == SeqRule(t16, <<15, 12, 16>>)                \* 17
          t18 == Not(t17, 16)                                \* 18 Not(Not(Capture(fo)))
      IN  Maybe(t18, 16)                                     \* 19 Maybe(Not(Capture(fo)))
     ),
     scripts |-> {<<>>},
     roots |-> {5, 6, 8, 9, 11, 13, 15, 16, 17, 18, 19}, alpha |-> {102, 111},
     extra |-> {<<98, 108, 97, 104>>, <<98>>, <<102, 98>>,
                <<195, 169>>, <<195>>, <<195, 102>>, <<226, 130>>}]

\* sequences of two, three and four rules, with and without values
GSeq ==
    [name |-> "seq",
     heap |-> (
      LET t1 == S(<<>>, <<97>>)                              \* 1 S("a")
          t2 == Capture(t1, 1)                               \* 2 Capture(a)
          t3 == S(t2, <<98>>)                                \* 3 S("b")
          t4 == Capture(t3, 3)                               \* 4 Capture(b)
          t5 == SeqRule(t4, <<2, 3>>)                        \* 5 Seq(A, b)
          t6 == SeqRule(t5, <<1, 4>>)                        \* 6 Seq(a, B)
          t7 == SeqRule(t6, <<2, 3, 1>>)                     \* 7 Seq(A, b, a)
          t8 == SeqRule(t7, <<2, 4, 1>>)                     \* 8 Seq(A, B, a)
          t9 == Maybe(t8, 3)                                 \* 9 Maybe(b)
          t10 == SeqRule(t9, <<2, 9, 4, 9>>)                 \* 10 Seq(A, b?, B, b?)
          t11 == SeqRule(t10, <<2, 9, 1, 9>>)                \* 11 Seq(A, b?, a, b?)
          t12 == SeqRule(t11, <<1, 3>>)                      \* 12 Seq(a, b)
      IN  SeqRule(t12, <<2, 4, 2>>)                          \* 13 Seq(A, B, A)
     ),
     scripts |-> {<<>>},
     roots |-> {5, 6, 7, 8, 10, 11, 12, 13}, alpha |-> {97, 98}, extra |-> {}]

\* a Ref whose body reaches it in a left-most position only past a rule that
\* an earlier alternative shares
GShared ==
    [name |-> "shared",
     heap |-> (
      LET t1 == S(<<>>, <<49>>)                              \* 1 t = S("1")
          t2 == S(t1, <<33>>)                                \* 2 S("!")
          t3 == SeqRule(t2, <<1, 2>>)                        \* 3 Seq(t, !)
          t4 == R(t3, "x")                                   \* 4 x
          t5 == S(t4, <<43>>)                                \* 5 S("+")
          t6 == SeqRule(t5, <<4, 5, 1>>)                     \* 6 Seq(x, +, t)
          t7 == Or(t6, <<3, 1, 6>>)                          \* 7 Or(t!, t, x+t)
          t8 == R(t7, "y")                                   \* 8 y
      IN  Or(t8, <<1, 6>>)                                   \* 9 Or(t, x+t)
     ),
     scripts |-> {<<SetStmt(4, 7)>>, <<SetStmt(4, 9)>>, <<SetStmt(4, 1)>>},
     roots |-> {4}, alpha |-> {49, 43}, extra |-> {}]

\* the grammar of "references can be automatically created using a label
\* factory", and programs that leave the Ref unbound or bind it twice
GLabels ==
    [name |-> "labels",
     heap |-> (
      LET t1 == S(<<>>, <<49>>)                              \* 1 S("1")
          t2 == R(t1, "one")                                 \* 2 l.Ref("one")
          t3 == S(t2, <<43>>)                                \* 3 S("+")
          t4 == SeqRule(t3, <<2, 3>>)                        \* 4 Seq(one, +)
          t5 == S(t4, <<45>>)                                \* 5 S("-")
          t6 == SeqRule(t5, <<2, 5>>)                        \* 6 Seq(one, -)
      IN  Or(t6, <<4, 6>>)                                   \* 7
     ),
     scripts |-> {<<LabelsSetStmt(2, 1)>>,
                  <<>>,
                  <<SetStmt(2, 1), SetStmt(2, 4)>>,
                  <<SetStmt(2, 4), SetStmt(2, 1)>>,
                  <<LabelsSetStmt(2, 1), LabelsSetStmt(2, 4)>>,
                  <<LabelsSetStmt(2, 4), SetStmt(2, 5)>>},
     roots |-> {7}, alpha |-> {49, 45}, extra |-> {}]

\* rules of the toolkit: Many, Scan, PrefixTable, Rune, Apply, CheckAction
GTool ==
    [name |-> "tool",
     heap |-> (
      LET t1 == Rune(<<>>, "isDigit")                        \* 1
          t2 == Many(t1, 1, 1, 2, "count")                   \* 2 Many(digit, 1, 2, count)
          t3 == Scan(t2, "untilB")                           \* 3
          t4 == Capture(t3, 3)                               \* 4
          t5 == S(t4, <<98>>)                                \* 5 S("b")
          t6 == SeqRule(t5, <<4, 5>>)                        \* 6 Seq(Capture(Scan), b)
          t7 == PrefixTable(t6, <<49, 98>>, <<2, 5>>)        \* 7
          t8 == Re(t7, "[0-9]+")                             \* 8
          t9 == Transform(t8, 8, "atoi")                     \* 9 numLit
          t10 == Named(t9, "val", 9)                         \* 10
          t12 == Apply(t10, 10, "testIntNode")               \* 11 matchApply, 12 Apply
          t13 == S(t12, <<102>>)                             \* 13 S("f")
          t14 == Or(t13, <<13, 5>>)                          \* 14
          t15 == Capture(t14, 14)                            \* 15
          t16 == Named(t15, "prefix", 15)                    \* 16
          t17 == CheckAction(t16, "prefixIsF")               \* 17
          t18 == SeqRule(t17, <<16, 17>>)                    \* 18
          t19 == Scope(t18, 18)                              \* 19
          t20 == Scan(t19, "zero")                           \* 20 Scan: always 0
          t21 == Scan(t20, "two")                            \* 21 Scan: always 2
      IN  R(t21, "w")                                        \* 22 w
     ),
     scripts |-> {<<>>, <<SetStmt(22, 18)>>},
     roots |-> {2, 6, 7, 12, 19, 20, 21}, alpha |-> {49, 98, 102},
     extra |-> {<<52, 50>>}]

\* repetitions: of a rule with a value, with the bounds of Many, and of rules
\* that match without advancing
GRep ==
    [name |-> "rep",
     heap |-> (
      LET t1 == S(<<>>, <<97>>)                              \* 1 S("a")
          t2 == Capture(t1, 1)                               \* 2 A = Capture(a)
          t3 == Star(t2, 2)                                  \* 3 Star(A)
          t4 == Plus(t3, 2)                                  \* 4 Plus(A)
          t5 == Many(t4, 2, 0, 0, "count")                   \* 5 Many(A, 0, 0, count)
          t6 == Many(t5, 2, 2, -1, "list")                   \* 6 Many(A, 2, -1, list)
          t7 == Many(t6, 2, 2, 1, "count")                   \* 7 Many(A, 2, 1, count)
          t8 == Maybe(t7, 1)                                 \* 8 Maybe(a)
          t9 == Star(t8, 8)                                  \* 9 Star(Maybe(a))
          t10 == S(t9, <<>>)                                 \* 10 S("")
          t11 == Plus(t10, 10)                               \* 11 Plus(S(""))
          t12 == EOS(t11)                                    \* 12 EOS()
      IN  Star(t12, 12)                                      \* 13 Star(EOS())
     ),
     scripts |-> {<<>>},
     roots |-> {3, 4, 5, 6, 7, 9, 11, 13}, alpha |-> {97, 98}, extra |-> {}]

\* named values: seven names in one scope, scopes inside scopes, a Ref bound
\* to a Scope, and Apply to the record types of TypeFields
GNames ==
    [name |-> "names",
     heap |-> (
      LET t1 == AnyRule(<<>>)                                \* 1 Any()
          t2 == Capture(t1, 1)                               \* 2 C = Capture(Any())
          t3 == Named(t2, "n1", 2)                           \* 3
          t4 == Named(t3, "n2", 2)                           \* 4
          t5 == Named(t4, "n3", 2)                           \* 5
          t6 == Named(t5, "n4", 2)                           \* 6
          t7 == Named(t6, "n5", 2)                           \* 7
          t8 == Named(t7, "n6", 2)                           \* 8
          t9 == Named(t8, "n7", 2)                           \* 9
          t10 == SeqRule(t9, <<3, 4, 5, 6, 7, 8, 9>>)        \* 10
          t11 == Scope(t10, 10)                              \* 11 Scope(Seq(n1..n7))
          t12 == Named(t11, "i", 2)                          \* 12 Named("i", C)
          t13 == Named(t12, "j", 2)                          \* 13 Named("j", C)
          t14 == Scope(t13, 13)                              \* 14 Scope(Named("j", C))
          t16 == Action(t14, 12, "getI")                     \* 15 matchAction, 16 Action
          t17 == SeqRule(t16, <<12, 14, 16>>)                \* 17
          t18 == R(t17, "r")                                 \* 18 r
          t19 == SeqRule(t18, <<12, 18>>)                    \* 19 Seq(Named i, r)
          t20 == Named(t19, "val", 2)                        \* 20 Named("val", C)
          t22 == Apply(t20, 20, "testIntNode")               \* 21 matchApply, 22 Apply
          t23 == Named(t22, "Lhs", 2)                        \* 23 Named("Lhs", C)
          t24 == SeqRule(t23, <<23, 12>>)                    \* 24
          t26 == Apply(t24, 24, "pair")                      \* 25 matchApply, 26 Apply
          t27 == SeqRule(t26, <<12, 12>>)                    \* 27 Seq(Named i, Named i)
          t29 == Action(t27, 27, "getI")                     \* 28 matchAction, 29 Action
          t30 == S(t29, <<45>>)                              \* 30 S("-")
          t31 == S(t30, <<43>>)                              \* 31 S("+")
          t32 == Transform(t31, 1, "atoi")                   \* 32 A = Transform(Any(), atoi)
          t33 == Named(t32, "i", 32)                         \* 33 Named("i", A)
          t34 == SeqRule(t33, <<33, 30>>)                    \* 34 Seq(Named("i", A), "-")
          t35 == SeqRule(t34, <<12, 31>>)                    \* 35 Seq(Named("i", C), "+")
          t36 == Or(t35, <<34, 35>>)                         \* 36
      IN  Action(t36, 36, "getI")                            \* 37 matchAction, 38 Action
     ),
     scripts |-> {<<SetStmt(18, 14)>>},
     roots |-> {11, 17, 19, 22, 26, 29, 38}, alpha |-> {97},
     extra |-> {<<97, 98, 99, 100, 101>>, <<97, 98, 99, 100, 101, 102>>,
                <<97, 98, 99, 100, 101, 102, 103>>, <<97, 98>>, <<49, 43>>}]

\* Refs inside their own rules: after a first element that consumes input,
\* in sequences of two, three and four rules, and in a left-recursive choice
\* whose other alternative matches the empty string
GNest ==
    [name |-> "nest",
     heap |-> (
      LET t1 == S(<<>>, <<40>>)                              \* 1 S("(")
          t2 == R(t1, "x")                                   \* 2 x
          t3 == SeqRule(t2, <<1, 2>>)                        \* 3 Seq("(", x)
          t4 == S(t3, <<41>>)                                \* 4 S(")")
          t5 == R(t4, "y")                                   \* 5 y
          t6 == SeqRule(t5, <<1, 5, 4>>)                     \* 6 Seq("(", y, ")")
          t7 == S(t6, <<33>>)                                \* 7 S("!")
          t8 == R(t7, "z")                                   \* 8 z
          t9 == SeqRule(t8, <<1, 8, 4, 7>>)                  \* 9 Seq("(", z, ")", "!")
          t10 == S(t9, <<97>>)                               \* 10 S("a")
          t11 == S(t10, <<98>>)                              \* 11 S("b")
          t12 == Maybe(t11, 11)                              \* 12 Maybe(S("b"))
          t13 == R(t12, "e")                                 \* 13 e
          t14 == SeqRule(t13, <<13, 10>>)                    \* 14 Seq(e, "a")
      IN  Or(t14, <<14, 12>>)                                \* 15 Or(Seq(e, a), Maybe(b))
     ),
     scripts |-> {<<SetStmt(2, 3), SetStmt(5, 6), SetStmt(8, 9), SetStmt(13, 15)>>},
     roots |-> {2, 5, 8, 13}, alpha |-> {40, 97}, extra |-> {<<98, 97>>}]

\* the rules a program parses one after the other with the same input: a
\* rule of a grammar with memoized Refs, and the rule that has the rule of
\* every Ref in the place of the Ref
Twins == {<<"memo", 14, 26>>, <<"memo", 33, 40>>, <<"memo", 5, 4>>}

Grammars ==
    {GChoice, GFurthest, GCalc, GBranches, GMemo, GPreds, GSeq, GShared, GLabels,
     GTool, GRep, GNames, GNest}

\* every byte string over alpha of length at most n
RECURSIVE Strings(_, _)
Strings(alpha, n) ==
    IF n = 0 THEN {<<>>}
    ELSE LET shorter == Strings(alpha, n - 1)
         IN  shorter \cup {Append(s, b) : s \in shorter, b \in alpha}

Inputs(gr) == Strings(gr.alpha, MaxLen) \cup gr.extra

\* the Refs of a heap
Refs(h) == {m \in 1..Len(h) : h[m].kind = "matchRef"}

(***************************************************************************)
(* The state.                                                              *)
(***************************************************************************)
VARIABLES
    gname,      \* the name of the grammar of this run
    roots,      \* the rules of the grammar that Parse may be given
    inputs,     \* the inputs Parse may be given
    heap,       \* the rule nodes
    todo,       \* the calls of Set the program has still to make
    refRule,    \* matchRef.rule of every Ref (0: nil)
    leftRec,    \* matchRef.leftRec of every Ref
    phase,      \* "build", "parse", "done" or "panic"
    fault,      \* the panic that ended the run, "" if none
    input,      \* state.input
    partial,    \* Parser.partial
    pos,        \* state.pos
    maxPos,     \* state.maxPos
    maxRule,    \* state.maxRule (0: nil)
    curRef,     \* state.curRef (0: nil)
    memos,      \* state.memos: <<pos, ref>> -> memoResult
    values,     \* state.values, the current scope
    stack,      \* the active match calls, the innermost last
    ret,        \* the result of the match call that returned last
    outcome,    \* what Parse returned: [val, matched, err]
    last,       \* history: the match call that returned last
    refLog,     \* history: the returns of matchRef.match, [ref, at, res, exit]
    runs,       \* history: <<pos, ref>> -> how often the Ref's body was matched there
    writes,     \* history: <<pos, ref>> -> how often its memo entry was written
    peak,       \* history: the largest offset pos has held in this parse
    first       \* history: what the parse before this one returned, if any

gramVars == <<gname, roots, inputs, heap, refRule, leftRec>>
stateVars == <<pos, maxPos, maxRule, curRef, memos, values>>
histVars == <<last, refLog, runs, writes, peak, first>>
vars == <<gname, roots, inputs, heap, todo, refRule, leftRec, phase, fault, input,
          partial, pos, maxPos, maxRule, curRef, memos, values, stack, ret,
          outcome, last, refLog, runs, writes, peak, first>>

\* result{}
NoRes == [matched |-> FALSE, value |-> NIL]

Matched(v) == [matched |-> TRUE, value |-> v]

NoOutcome == [val |-> NIL, matched |-> FALSE, err |-> <<>>]

\* no parse before this one
NoFirst == [rule |-> 0, outcome |-> NoOutcome, pos |-> 0]

NoCall ==
    [node |-> 0, entry |-> 0, exit |-> 0, res |-> NoRes, kids |-> <<>>, ev |-> "",
     vin |-> NewValues, vout |-> NewValues, n |-> 0]

\* the activation of a match method: the rule, where the method is (0: at
\* its entry, k: the k-th sub-rule call has returned), its local variables,
\* and as history the position and the scope it was entered with and the
\* calls it made
Frame(n, p, v) ==
    [node |-> n, pc |-> 0, entry |-> p, mark |-> p, top |-> p, val |-> NIL,
     vals |-> NewValues, cur |-> 0, lastRes |-> NoRes, lastPos |-> 0,
     results |-> <<>>, kids |-> <<>>, scope |-> v]

\* the fields of state a match method reads and writes
CurState ==
    [pos |-> pos, maxPos |-> maxPos, maxRule |-> maxRule, curRef |-> curRef,
     memos |-> memos, values |-> values]

\* an advance that keeps no track of the furthest position (a faulty variant)
AdvanceUntracked(s, l) == [s EXCEPT !.pos = s.pos + l]

\* state.advance
Advance(s, l) ==
    [s EXCEPT !.pos = s.pos + l,
              !.maxPos = IF s.pos + l > s.maxPos THEN s.pos + l ELSE @,
              !.maxRule = IF s.pos + l > s.maxPos THEN s.curRef ELSE @]

\* a restore that leaves pos where it is (a faulty variant, to show that the
\* properties below depend on the restore)
KeepPos(s, p) == s

\* state.restore
Restore(s, p) == [s EXCEPT !.pos = p]

\* what a step of a match method ends in: the call of a sub-rule, its
\* return, a panic, or (halt) a counter of the model at its bound.  ev names
\* what a matchRef did to its memo entry.
Call(f, child, s) ==
    [op |-> "call", f |-> f, child |-> child, res |-> NoRes, s |-> s, ev |-> ""]

Return(f, res, s) ==
    [op |-> "ret", f |-> f, child |-> 0, res |-> res, s |-> s, ev |-> ""]

Panic(f, why, s) ==
    [op |-> "panic", f |-> f, child |-> 0, res |-> NoRes, s |-> s, ev |-> why]

Halt(f, s) ==
    [op |-> "halt", f |-> f, child |-> 0, res |-> NoRes, s |-> s, ev |-> ""]

Event(o, ev) == [o EXCEPT !.ev = ev]

(***************************************************************************)
(* The terminals.  Each match method is an operator of the frame f, the    *)
(* result res of the sub-rule that returned (if any) and the state s.      *)
(***************************************************************************)
InputSize == Len(input)

matchAnyMatch(f, res, s) ==
    IF s.pos >= InputSize THEN Return(f, NoRes, s)
    ELSE Return(f, Matched(NIL), Advance(s, RuneSize(input, s.pos)))

matchStringMatch(f, res, s) ==
    LET str == heap[f.node].str
    IN  IF s.pos > InputSize THEN Panic(f, "slice bounds out of range", s)
        ELSE IF Len(str) > Len(Cur(input, s.pos)) THEN Return(f, NoRes, s)
        ELSE IF HasPrefix(Cur(input, s.pos), str)
        THEN Return(f, Matched(NIL), Advance(s, Len(str)))
        ELSE Return(f, NoRes, s)

matchString1Match(f, res, s) ==
    IF s.pos >= InputSize THEN Return(f, NoRes, s)
    ELSE IF input[s.pos + 1] = heap[f.node].str[1]
    THEN Return(f, Matched(NIL), Advance(s, 1))
    ELSE Return(f, NoRes, s)

matchString2Match(f, res, s) ==
    IF s.pos + 1 >= InputSize THEN Return(f, NoRes, s)
    ELSE IF input[s.pos + 1] # heap[f.node].str[1] THEN Return(f, NoRes, s)
    ELSE IF input[s.pos + 2] # heap[f.node].str[2] THEN Return(f, NoRes, s)
    ELSE Return(f, Matched(NIL), Advance(s, 2))

matchRegexpMatch(f, res, s) ==
    LET loc == RegexpEnd(heap[f.node].fn, Cur(input, s.pos))
    IN  IF s.pos > InputSize THEN Panic(f, "slice bounds out of range", s)
        ELSE IF loc = -1 THEN Return(f, NoRes, s)
        ELSE Return(f, Matched(NIL), Advance(s, loc))

matchCharRangeMatch(f, res, s) ==
    IF s.pos >= InputSize THEN Return(f, NoRes, s)
    ELSE LET rn == RuneAt(input, s.pos)
         IN  IF rn < heap[f.node].lo \/ rn > heap[f.node].hi
             THEN Return(f, NoRes, s)
             ELSE Return(f, Matched(NIL), Advance(s, RuneSize(input, s.pos)))

matchCharSetMatch(f, res, s) ==
    IF s.pos >= InputSize THEN Return(f, NoRes, s)
    ELSE LET rn == RuneAt(input, s.pos)
             set == heap[f.node].str
         IN  IF \E i \in 1..Len(set) : set[i] = rn
             THEN Return(f, Matched(NIL), Advance(s, RuneSize(input, s.pos)))
             ELSE Return(f, NoRes, s)

matchRunePredicateMatch(f, res, s) ==
    IF s.pos >= InputSize THEN Return(f, NoRes, s)
    ELSE IF RuneFn(heap[f.node].fn, RuneAt(input, s.pos))
    THEN Return(f, Matched(NIL), Advance(s, RuneSize(input, s.pos)))
    ELSE Return(f, NoRes, s)

matchEOSMatch(f, res, s) ==
    Return(f, [matched |-> s.pos >= InputSize, value |-> NIL], s)

matchScanMatch(f, res, s) ==
    IF s.pos >= InputSize THEN Return(f, NoRes, s)
    ELSE LET loc == ScanFn(heap[f.node].fn, Cur(input, s.pos))
         IN  IF loc = -1 THEN Return(f, NoRes, s)
             ELSE Return(f, Matched(NIL), Advance(s, loc))

matchNotByteMatch(f, res, s) ==
    IF s.pos >= Len(input) THEN Return(f, NoRes, s)
    ELSE Return(f, [matched |-> heap[f.node].str[1] # input[s.pos + 1],
                    value |-> NIL], s)

matchCheckActionMatch(f, res, s) ==
    LET b == CheckFn(heap[f.node].fn, s.values)
    IN  IF b = "panic" THEN Panic(f, "check action panicked", s)
        ELSE IF b = "true" THEN Return(f, Matched(NIL), Restore(s, f.mark))
        ELSE Return(f, NoRes, Restore(s, f.mark))

(***************************************************************************)
(* The combinators.                                                        *)
(***************************************************************************)
matchOrMatch(f, res, s) ==
    LET rules == heap[f.node].rules
    IN  IF f.pc = 0
        THEN IF rules = <<>> THEN Return(f, NoRes, s)
             ELSE Call([f EXCEPT !.pc = 1, !.mark = s.pos], rules[1], s)
        ELSE IF res.matched THEN Return(f, res, s)
        ELSE IF f.pc < Len(rules)
        THEN Call([f EXCEPT !.pc = f.pc + 1], rules[f.pc + 1], Restore(s, f.mark))
        ELSE Return(f, NoRes, Restore(s, f.mark))

\* a matchEither that tries b before a (a faulty variant)
matchEitherSwapped(f, res, s) ==
    LET a == heap[f.node].rules[2]
        b == heap[f.node].rules[1]
    IN  IF f.pc = 0 THEN Call([f EXCEPT !.pc = 1, !.mark = s.pos], a, s)
        ELSE IF f.pc = 1
        THEN IF res.matched THEN Return(f, res, s)
             ELSE Call([f EXCEPT !.pc = 2], b, Restore(s, f.mark))
        ELSE IF res.matched THEN Return(f, res, s)
        ELSE Return(f, NoRes, Restore(s, f.mark))

matchEitherMatch(f, res, s) ==
    LET a == heap[f.node].rules[1]
        b == heap[f.node].rules[2]
    IN  IF f.pc = 0 THEN Call([f EXCEPT !.pc = 1, !.mark = s.pos], a, s)
        ELSE IF f.pc = 1
        THEN IF res.matched THEN Return(f, res, s)
             ELSE Call([f EXCEPT !.pc = 2], b, Restore(s, f.mark))
        ELSE IF res.matched THEN Return(f, res, s)
        ELSE Return(f, NoRes, Restore(s, f.mark))

\* (the label stack refStack that matchBranch keeps for the debug trace is
\* left out)
matchBranchMatch(f, res, s) ==
    LET rules == heap[f.node].rules
    IN  IF f.pc = 0
        THEN IF rules = <<>> THEN Return(f, NoRes, s)
             ELSE Call([f EXCEPT !.pc = 1, !.mark = s.pos], rules[1], s)
        ELSE IF res.matched THEN Return(f, res, s)
        ELSE IF f.pc < Len(rules)
        THEN Call([f EXCEPT !.pc = f.pc + 1], rules[f.pc + 1], Restore(s, f.mark))
        ELSE Return(f, NoRes, Restore(s, f.mark))

matchSeqMatch(f, res, s) ==
    LET rules == heap[f.node].rules
        val == IF res.value # NIL THEN res.value ELSE f.val
    IN  IF f.pc = 0
        THEN IF rules = <<>> THEN Return(f, Matched(NIL), s)
             ELSE Call([f EXCEPT !.pc = 1, !.mark = s.pos, !.val = NIL], rules[1], s)
        ELSE IF ~res.matched THEN Return(f, NoRes, Restore(s, f.mark))
        ELSE IF f.pc < Len(rules)
        THEN Call([f EXCEPT !.pc = f.pc + 1, !.val = val], rules[f.pc + 1], s)
        ELSE Return(f, Matched(val), s)

\* a matchBoth whose value is that of b, nil or not (a faulty variant)
matchBothLast(f, res, s) ==
    LET a == heap[f.node].rules[1]
        b == heap[f.node].rules[2]
    IN  IF f.pc = 0 THEN Call([f EXCEPT !.pc = 1, !.mark = s.pos], a, s)
        ELSE IF ~res.matched THEN Return(f, NoRes, Restore(s, f.mark))
        ELSE IF f.pc = 1 THEN Call([f EXCEPT !.pc = 2, !.val = res.value], b, s)
        ELSE Return(f, Matched(res.value), s)

matchBothMatch(f, res, s) ==
    LET a == heap[f.node].rules[1]
        b == heap[f.node].rules[2]
    IN  IF f.pc = 0 THEN Call([f EXCEPT !.pc = 1, !.mark = s.pos], a, s)
        ELSE IF ~res.matched THEN Return(f, NoRes, Restore(s, f.mark))
        ELSE IF f.pc = 1 THEN Call([f EXCEPT !.pc = 2, !.val = res.value], b, s)
        ELSE Return(f, Matched(IF res.value # NIL THEN res.value ELSE f.val), s)

matchThreeMatch(f, res, s) ==
    LET a == heap[f.node].rules[1]
        b == heap[f.node].rules[2]
        c == heap[f.node].rules[3]
        val == IF res.value # NIL THEN res.value ELSE f.val
    IN  IF f.pc = 0 THEN Call([f EXCEPT !.pc = 1, !.mark = s.pos], a, s)
        ELSE IF ~res.matched THEN Return(f, NoRes, Restore(s, f.mark))
        ELSE IF f.pc = 1 THEN Call([f EXCEPT !.pc = 2, !.val = res.value], b, s)
        ELSE IF f.pc = 2 THEN Call([f EXCEPT !.pc = 3, !.val = val], c, s)
        ELSE Return(f, Matched(val), s)

matchZeroOrMoreMatch(f, res, s) ==
    LET rule == heap[f.node].rules[1]
    IN  IF f.pc = 0 THEN Call([f EXCEPT !.pc = 1, !.mark = s.pos], rule, s)
        ELSE IF res.matched THEN Call([f EXCEPT !.mark = s.pos], rule, s)
        ELSE Return(f, Matched(res.value), Restore(s, f.mark))

matchOneOrMoreMatch(f, res, s) ==
    LET rule == heap[f.node].rules[1]
    IN  IF f.pc = 0 THEN Call([f EXCEPT !.pc = 1, !.mark = s.pos], rule, s)
        ELSE IF f.pc = 1
        THEN IF ~res.matched THEN Return(f, NoRes, Restore(s, f.mark))
             ELSE Call([f EXCEPT !.pc = 2, !.val = res.value, !.mark = s.pos], rule, s)
        ELSE IF res.matched
        THEN Call([f EXCEPT !.val = res.value, !.mark = s.pos], rule, s)
        ELSE Return(f, Matched(f.val), Restore(s, f.mark))

\* the end of matchMany.match, after its loop
ManyFinish(f, results, s) ==
    IF Len(results) < heap[f.node].lo
    THEN Return(f, NoRes, Restore(s, f.top))
    ELSE Return(f, Matched(ManyFn(heap[f.node].fn, results)), s)

matchManyMatch(f, res, s) ==
    LET rule == heap[f.node].rules[1]
        max == heap[f.node].hi
        results == Append(f.results, res.value)
    IN  IF f.pc = 0
        THEN Call([f EXCEPT !.pc = 1, !.top = s.pos, !.mark = s.pos,
                            !.results = <<>>], rule, s)
        ELSE IF ~res.matched THEN ManyFinish(f, f.results, Restore(s, f.mark))
        ELSE IF max # -1 /\ Len(results) = max
        THEN ManyFinish([f EXCEPT !.results = results], results, s)
        ELSE Call([f EXCEPT !.results = results, !.mark = s.pos], rule, s)

matchOptionalMatch(f, res, s) ==
    IF f.pc = 0
    THEN Call([f EXCEPT !.pc = 1, !.mark = s.pos], heap[f.node].rules[1], s)
    ELSE Return(f, Matched(res.value),
                IF res.matched THEN s ELSE Restore(s, f.mark))

\* a Check that keeps what its rule consumed (a faulty variant)
matchCheckConsuming(f, res, s) ==
    IF f.pc = 0
    THEN Call([f EXCEPT !.pc = 1, !.mark = s.pos], heap[f.node].rules[1], s)
    ELSE Return(f, res, s)

matchCheckMatch(f, res, s) ==
    IF f.pc = 0
    THEN Call([f EXCEPT !.pc = 1, !.mark = s.pos], heap[f.node].rules[1], s)
    ELSE Return(f, res, Restore(s, f.mark))

matchNotMatch(f, res, s) ==
    IF f.pc = 0
    THEN IF s.pos >= Len(input) THEN Return(f, NoRes, Restore(s, s.pos))
         ELSE Call([f EXCEPT !.pc = 1, !.mark = s.pos], heap[f.node].rules[1], s)
    ELSE Return(f, [matched |-> ~res.matched, value |-> res.value],
                Restore(s, f.mark))

matchPrefixTableMatch(f, res, s) ==
    LET keys == heap[f.node].str
        hits == IF s.pos >= InputSize THEN {}
                ELSE {i \in 1..Len(keys) : keys[i] = input[s.pos + 1]}
    IN  IF f.pc = 0
        THEN IF s.pos >= InputSize \/ hits = {} THEN Return(f, NoRes, s)
             ELSE Call([f EXCEPT !.pc = 1],
                       heap[f.node].rules[CHOOSE i \in hits : \A j \in hits : j <= i],
                       s)
        ELSE Return(f, res, s)

(***************************************************************************)
(* The reference and the rules of values.                                  *)
(***************************************************************************)
\* memoResult
MemoResult(res, endPos, used) == [result |-> res, endPos |-> endPos, used |-> used]

\* memo[m] = mr, memo being s.memos[pos]
MemoPut(memo, key, mr) ==
    [k \in DOMAIN memo \cup {key} |-> IF k = key THEN mr ELSE memo[k]]

\* the deferred s.curRef = cur of matchRef.match
RefReturn(f, res, s) == Return(f, res, [s EXCEPT !.curRef = f.cur])

\* a memo hit that does not count the use (a faulty variant)
RefMemoHitUncounted(f, key, s) ==
    LET mr == s.memos[key]
    IN  Event(RefReturn(f, mr.result, [s EXCEPT !.pos = mr.endPos]), "hit")

\* matchRef.match when memo[m] exists
RefMemoHit(f, key, s) ==
    LET mr == s.memos[key]
    IN  IF mr.used >= MaxUsed THEN Halt(f, s)
        ELSE Event(RefReturn(f, mr.result,
                             [s EXCEPT !.memos = MemoPut(@, key, [mr EXCEPT !.used = @ + 1]),
                                       !.pos = mr.endPos]),
                   "hit")

\* a seed growth that returns the first match of the rule without matching
\* it again (a faulty variant)
RefGrowOnce(f, res, key, s) ==
    IF f.pc = 0
    THEN Event(Call([f EXCEPT !.pc = 1, !.lastRes = NoRes, !.lastPos = f.mark],
                    refRule[f.node],
                    [s EXCEPT !.memos = MemoPut(@, key, MemoResult(NoRes, f.mark, 0)),
                              !.pos = f.mark]),
               "seed")
    ELSE Event(RefReturn(f, res, s), "stop")

\* a seed growth that returns what the rule gave the last time round, the
\* round that did not get further (a faulty variant)
RefGrowLatest(f, res, key, s) ==
    LET rule == refRule[f.node]
        endPos == s.pos
    IN  IF f.pc = 0
        THEN Event(Call([f EXCEPT !.pc = 1, !.lastRes = NoRes, !.lastPos = f.mark],
                        rule,
                        [s EXCEPT !.memos = MemoPut(@, key, MemoResult(NoRes, f.mark, 0)),
                                  !.pos = f.mark]),
                   "seed")
        ELSE IF endPos <= f.lastPos
        THEN Event(RefReturn(f, res, s), "stop")
        ELSE Event(Call([f EXCEPT !.lastRes = res, !.lastPos = endPos],
                        rule,
                        [s EXCEPT !.memos = MemoPut(@, key,
                                      MemoResult(res, endPos, s.memos[key].used)),
                                  !.pos = f.mark]),
                   "grow")

\* matchRef.match when m.leftRec: seed the memo, then match the rule again
\* and again from pos for as long as it ends further than the last time
RefGrow(f, res, key, s) ==
    LET rule == refRule[f.node]
        endPos == s.pos
    IN  IF f.pc = 0
        THEN Event(Call([f EXCEPT !.pc = 1, !.lastRes = NoRes, !.lastPos = f.mark],
                        rule,
                        [s EXCEPT !.memos = MemoPut(@, key, MemoResult(NoRes, f.mark, 0)),
                                  !.pos = f.mark]),
                   "seed")
        ELSE IF endPos <= f.lastPos
        THEN Event(RefReturn(f, f.lastRes, Restore(s, f.lastPos)), "stop")
        ELSE Event(Call([f EXCEPT !.lastRes = res, !.lastPos = endPos],
                        rule,
                        [s EXCEPT !.memos = MemoPut(@, key,
                                      MemoResult(res, endPos, s.memos[key].used)),
                                  !.pos = f.mark]),
                   "grow")

\* an ordinary Ref that records the position it began at as the end of the
\* match (a faulty variant)
RefOnceNoEnd(f, res, key, s) ==
    IF f.pc = 0 THEN Event(Call([f EXCEPT !.pc = 2], refRule[f.node], s), "run")
    ELSE Event(RefReturn(f, res,
                         [s EXCEPT !.memos = MemoPut(@, key, MemoResult(res, f.mark, 0))]),
               "store")

\* matchRef.match otherwise: match the rule once and record the result
RefOnce(f, res, key, s) ==
    IF f.pc = 0 THEN Event(Call([f EXCEPT !.pc = 2], refRule[f.node], s), "run")
    ELSE Event(RefReturn(f, res,
                         [s EXCEPT !.memos = MemoPut(@, key, MemoResult(res, s.pos, 0))]),
               "store")

matchRefMatch(f, res, s) ==
    LET m == f.node
        g == [f EXCEPT !.cur = s.curRef, !.mark = s.pos]
        key == <<f.mark, m>>
    IN  IF refRule[m] = 0 THEN Panic(f, "unset ref detected", s)
        ELSE IF f.pc = 0
        THEN IF <<s.pos, m>> \in DOMAIN s.memos
             THEN RefMemoHit(g, <<s.pos, m>>, [s EXCEPT !.curRef = m])
             ELSE IF leftRec[m]
             THEN RefGrow(g, res, <<s.pos, m>>, [s EXCEPT !.curRef = m])
             ELSE RefOnce(g, res, <<s.pos, m>>, [s EXCEPT !.curRef = m])
        ELSE IF f.pc = 1 THEN RefGrow(f, res, key, s)
        ELSE RefOnce(f, res, key, s)

\* a Scope that leaves its own scope current when it returns (a faulty
\* variant)
matchScopeKept(f, res, s) ==
    IF f.pc = 0
    THEN Call([f EXCEPT !.pc = 1, !.vals = s.values], heap[f.node].rules[1],
              [s EXCEPT !.values = NewValues])
    ELSE Return(f, res, s)

matchScopeMatch(f, res, s) ==
    IF f.pc = 0
    THEN Call([f EXCEPT !.pc = 1, !.vals = s.values], heap[f.node].rules[1],
              [s EXCEPT !.values = NewValues])
    ELSE Return(f, res, [s EXCEPT !.values = f.vals])

matchNamedMatch(f, res, s) ==
    IF f.pc = 0 THEN Call([f EXCEPT !.pc = 1], heap[f.node].rules[1], s)
    ELSE IF res.matched
    THEN Return(f, res, [s EXCEPT !.values = NamedSet(@, heap[f.node].name, res.value)])
    ELSE Return(f, res, s)

matchActionMatch(f, res, s) ==
    LET v == ActionFn(heap[f.node].fn, s.values)
    IN  IF f.pc = 0
        THEN Call([f EXCEPT !.pc = 1, !.mark = s.pos], heap[f.node].rules[1], s)
        ELSE IF ~res.matched THEN Return(f, res, Restore(s, f.mark))
        ELSE IF v = PANIC THEN Panic(f, "action panicked", s)
        ELSE IF IsPositioner(v)
        THEN Return(f, Matched(SetPosition(v, f.mark, s.pos)), s)
        ELSE Return(f, Matched(v), s)

\* the struct types given to Apply: the fields in order, each with its ast
\* tag, whether it is exported, and the tag of the values assignable to it
\* ("any" for interface{})
TypeFields(typ) ==
    IF typ = "testIntNode"
    THEN << [name |-> "Val", ast |-> "val", exported |-> TRUE, type |-> "int"],
            [name |-> "posStart", ast |-> "", exported |-> FALSE, type |-> "int"],
            [name |-> "posEnd", ast |-> "", exported |-> FALSE, type |-> "int"] >>
    ELSE << [name |-> "Lhs", ast |-> "", exported |-> TRUE, type |-> "any"],
            [name |-> "Rhs", ast |-> "rhs", exported |-> TRUE, type |-> "str"] >>

\* the zero value of a field
ZeroOf(type) == IF type = "int" THEN <<"int", 0>>
                ELSE IF type = "str" THEN <<"str", <<>>>>
                ELSE NIL

\* what the loop of matchApply.expand leaves in field ft: PANIC when
\* reflect's Set is given a value that is not assignable to the field
FieldValue(ft, v) ==
    LET name == IF ft.ast = "" THEN ft.name ELSE ft.ast
        val == ValuesGet(v, name)
    IN  IF ~ft.exported THEN ZeroOf(ft.type)
        ELSE IF val = NIL THEN ZeroOf(ft.type)
        ELSE IF ft.type = "any" \/ Tag(val) = ft.type THEN val
        ELSE PANIC

\* matchApply.expand: the new record, a *testIntNode as <<"node", Val,
\* posStart, posEnd>>, any other as <<"rec", type, fields>>
Expand(typ, v) ==
    LET fts == TypeFields(typ)
        fields == [i \in 1..Len(fts) |-> FieldValue(fts[i], v)]
    IN  IF \E i \in 1..Len(fts) : fields[i] = PANIC THEN PANIC
        ELSE IF typ = "testIntNode" THEN <<"node", fields[1][2], 0, 0>>
        ELSE <<"rec", typ, fields>>

matchApplyMatch(f, res, s) ==
    LET v == Expand(heap[f.node].fn, s.values)
    IN  IF f.pc = 0
        THEN Call([f EXCEPT !.pc = 1, !.mark = s.pos], heap[f.node].rules[1], s)
        ELSE IF ~res.matched THEN Return(f, res, Restore(s, f.mark))
        ELSE IF v = PANIC THEN Panic(f, "reflect: value not assignable", s)
        ELSE Return(f, Matched(v), s)

\* a Transform that does not tell its value where it is (a faulty variant)
matchTransformUnplaced(f, res, s) ==
    LET v == TransformFn(heap[f.node].fn, Slice(input, f.mark, s.pos))
    IN  IF f.pc = 0
        THEN Call([f EXCEPT !.pc = 1, !.mark = s.pos], heap[f.node].rules[1], s)
        ELSE IF ~res.matched THEN Return(f, res, Restore(s, f.mark))
        ELSE Return(f, Matched(v), s)

matchTransformMatch(f, res, s) ==
    LET v == TransformFn(heap[f.node].fn, Slice(input, f.mark, s.pos))
    IN  IF f.pc = 0
        THEN Call([f EXCEPT !.pc = 1, !.mark = s.pos], heap[f.node].rules[1], s)
        ELSE IF ~res.matched THEN Return(f, res, Restore(s, f.mark))
        ELSE IF f.mark > s.pos \/ s.pos > InputSize
        THEN Panic(f, "slice bounds out of range", s)
        ELSE IF IsPositioner(v)
        THEN Return(f, Matched(SetPosition(v, f.mark, s.pos)), s)
        ELSE Return(f, Matched(v), s)

matchCaptureMatch(f, res, s) ==
    IF f.pc = 0
    THEN Call([f EXCEPT !.pc = 1, !.mark = s.pos], heap[f.node].rules[1], s)
    ELSE IF ~res.matched THEN Return(f, res, Restore(s, f.mark))
    ELSE IF f.mark > s.pos \/ s.pos > InputSize
    THEN Panic(f, "slice bounds out of range", s)
    ELSE Return(f, Matched(<<"str", Slice(input, f.mark, s.pos)>>), s)

(***************************************************************************)
(* Binding a Ref.                                                          *)
(***************************************************************************)
\* a Set that binds the Ref whether or not it is bound (a faulty variant)
RefSetAgain(h, rr, lr, r, rule, rev) ==
    LET rr2 == [rr EXCEPT ![r] = rule]
        d == DetectLeftRec(h, rr2, rule, r, {rule}, rev)
    IN  [heap |-> h, refRule |-> rr2,
         leftRec |-> [lr EXCEPT ![r] = @ \/ rule = r \/ d.found], fault |-> ""]

\* matchRef.Set(rule) on the Ref r: the heap, the rule and leftRec fields
\* after it, and the panic it ended in ("" if none)
RefSet(h, rr, lr, r, rule, rev) ==
    LET wrap == h[rule].kind = "matchScope"
        h2 == IF wrap THEN Append(h, Unary("matchScope", rule)) ELSE h
        body == IF wrap THEN Len(h2) ELSE rule
        rr2 == [rr EXCEPT ![r] = body]
        d == DetectLeftRec(h2, rr2, body, r, {body}, rev)
    IN  IF rr[r] # 0
        THEN [heap |-> h, refRule |-> rr, leftRec |-> lr, fault |-> "rule already set"]
        ELSE IF body = r
        THEN [heap |-> h2, refRule |-> rr2, leftRec |-> [lr EXCEPT ![r] = TRUE],
              fault |-> ""]
        ELSE IF d.panic
        THEN [heap |-> h2, refRule |-> rr2, leftRec |-> lr,
              fault |-> "nil pointer dereference"]
        ELSE [heap |-> h2, refRule |-> rr2,
              leftRec |-> [lr EXCEPT ![r] = @ \/ d.found], fault |-> ""]

\* labels.Set(name, rule): the Ref of that name, made if need be, is Set
LabelsSet(h, rr, lr, r, rule, rev) == RefSet(h, rr, lr, r, rule, rev)

\* the state after one call of Set
Bind(b) ==
    /\ heap' = b.heap
    /\ refRule' = b.refRule
    /\ leftRec' = b.leftRec
    /\ fault' = b.fault
    /\ phase' = IF b.fault = "" THEN "build" ELSE "panic"
    /\ todo' = IF b.fault = "" THEN Tail(todo) ELSE todo
    /\ UNCHANGED <<gname, roots, inputs, input, partial, stateVars, stack, ret,
                   outcome, histVars>>

(***************************************************************************)
(* The driver.                                                             *)
(***************************************************************************)
EmptyMemos == [k \in {} |-> MemoResult(NoRes, 0, 0)]

\* a Parse that has no partial option (a faulty variant)
ParseStrict(res, p, part) ==
    IF ~res.matched THEN [val |-> NIL, matched |-> FALSE, err |-> <<>>]
    ELSE IF p # InputSize
    THEN [val |-> res.value, matched |-> FALSE,
          err |-> <<"ErrInputNotConsumed", maxPos, maxRule>>]
    ELSE [val |-> res.value, matched |-> TRUE, err |-> <<>>]

\* Parser.Parse, from the return of the root rule on
ParseResult(res, p, part) ==
    IF ~res.matched THEN [val |-> NIL, matched |-> FALSE, err |-> <<>>]
    ELSE IF ~part /\ p # InputSize
    THEN [val |-> res.value, matched |-> FALSE,
          err |-> <<"ErrInputNotConsumed", maxPos, maxRule>>]
    ELSE [val |-> res.value, matched |-> TRUE, err |-> <<>>]

(***************************************************************************)
(* One step of a match method.                                             *)
(***************************************************************************)
Top == stack[Len(stack)]

Busy(kind) ==
    /\ phase = "parse"
    /\ stack # <<>>
    /\ Len(stack) <= MaxDepth
    /\ heap[Top.node].kind = kind

\* the calls of these rules record the calls they make (history)
Tracked ==
    {"matchOr", "matchEither", "matchBranch", "matchSeq", "matchBoth",
     "matchThree", "matchCheck", "matchNot", "matchOptional", "matchRef",
     "matchScope", "matchAction", "matchApply", "matchTransform"}

\* the calls of these rules record the last call they made that matched
Repeats == {"matchZeroOrMore", "matchOneOrMore", "matchMany"}

\* a returned call: the rule, the position and scope at its entry (entry,
\* vin) and at its return (exit, vout), its result, the calls it made, what
\* it did to the memo, and the number of values a matchMany collected
CallRecord(o) ==
    [node |-> o.f.node, entry |-> o.f.entry, exit |-> o.s.pos, res |-> o.res,
     kids |-> o.f.kids, ev |-> o.ev, vin |-> o.f.scope, vout |-> o.s.values,
     n |-> Len(o.f.results)]

Popped(o) ==
    LET n == Len(stack) - 1
        rec == [CallRecord(o) EXCEPT !.kids = <<>>]
    IN  IF n = 0 THEN <<>>
        ELSE IF heap[stack[n].node].kind \in Tracked
        THEN [SubSeq(stack, 1, n) EXCEPT ![n].kids = Append(@, rec)]
        ELSE IF heap[stack[n].node].kind \in Repeats /\ rec.res.matched
        THEN [SubSeq(stack, 1, n) EXCEPT ![n].kids = <<rec>>]
        ELSE SubSeq(stack, 1, n)

Bump(cnt, key) ==
    [k \in DOMAIN cnt \cup {key} |->
        IF k = key THEN (IF k \in DOMAIN cnt THEN cnt[k] + 1 ELSE 1) ELSE cnt[k]]

Step(o) ==
    /\ o.op # "halt"
    /\ pos' = o.s.pos
    /\ maxPos' = o.s.maxPos
    /\ maxRule' = o.s.maxRule
    /\ curRef' = o.s.curRef
    /\ memos' = o.s.memos
    /\ values' = o.s.values
    /\ stack' = IF o.op = "call"
                THEN Append([stack EXCEPT ![Len(stack)] = o.f],
                            Frame(o.child, o.s.pos, o.s.values))
                ELSE IF o.op = "ret" THEN Popped(o)
                ELSE stack
    /\ ret' = IF o.op = "ret" THEN o.res ELSE NoRes
    /\ phase' = IF o.op = "panic" THEN "panic" ELSE phase
    /\ fault' = IF o.op = "panic" THEN o.ev ELSE fault
    /\ last' = IF o.op = "ret" THEN CallRecord(o) ELSE last
    /\ refLog' = IF o.op = "ret" /\ heap[o.f.node].kind = "matchRef"
                 THEN refLog \cup {[ref |-> o.f.node, at |-> o.f.mark, res |-> o.res,
                                    exit |-> o.s.pos]}
                 ELSE refLog
    /\ runs' = IF o.ev \in {"seed", "grow", "run"}
               THEN Bump(runs, <<o.f.mark, o.f.node>>) ELSE runs
    /\ writes' = IF o.ev \in {"seed", "grow", "store"}
                 THEN Bump(writes, <<o.f.mark, o.f.node>>) ELSE writes
    /\ peak' = IF o.s.pos > peak THEN o.s.pos ELSE peak
    /\ first' = first
    /\ UNCHANGED <<gramVars, todo, input, partial, outcome>>

(***************************************************************************)
(* The program: it builds a grammar (the constructor calls give the heap,  *)
(* then it makes the calls of Set of its script), then hands a rule and an *)
(* input to Parse.                                                         *)
(***************************************************************************)
NoCount == [k \in {} |-> 0]

Init ==
    \E gr \in Grammars : \E sc \in gr.scripts :
        /\ gname = gr.name
        /\ roots = gr.roots
        /\ inputs = Inputs(gr)
        /\ heap = gr.heap
        /\ todo = sc
        /\ refRule = [m \in Refs(gr.heap) |-> 0]
        /\ leftRec = [m \in Refs(gr.heap) |-> FALSE]
        /\ phase = "build"
        /\ fault = ""
        /\ input = <<>>
        /\ partial = FALSE
        /\ pos = 0
        /\ maxPos = 0
        /\ maxRule = 0
        /\ curRef = 0
        /\ memos = EmptyMemos
        /\ values = NewValues
        /\ stack = <<>>
        /\ ret = NoRes
        /\ outcome = NoOutcome
        /\ last = NoCall
        /\ refLog = {}
        /\ runs = NoCount
        /\ writes = NoCount
        /\ peak = 0
        /\ first = NoFirst

\* ref.Set(rule)
SetRule ==
    /\ phase = "build"
    /\ todo # <<>>
    /\ Head(todo).via = "Ref.Set"
    /\ \E rev \in BOOLEAN :
          Bind(RefSet(heap, refRule, leftRec, Head(todo).ref, Head(todo).body, rev))

\* labels.Set(name, rule)
SetLabel ==
    /\ phase = "build"
    /\ todo # <<>>
    /\ Head(todo).via = "Labels.Set"
    /\ \E rev \in BOOLEAN :
          Bind(LabelsSet(heap, refRule, leftRec, Head(todo).ref, Head(todo).body, rev))

\* Parser.parse up to the call of the root rule
ParseStart ==
    /\ phase = "build"
    /\ todo = <<>>
    /\ \E r \in roots : \E inp \in inputs : \E part \in BOOLEAN :
          /\ input' = inp
          /\ partial' = part
          /\ stack' = <<Frame(r, 0, NewValues)>>
    /\ phase' = "parse"
    /\ pos' = 0
    /\ maxPos' = 0
    /\ maxRule' = 0
    /\ curRef' = 0
    /\ memos' = EmptyMemos
    /\ values' = NewValues
    /\ ret' = NoRes
    /\ UNCHANGED <<gramVars, todo, fault, outcome, histVars>>

\* Parser.Parse from the return of the root rule
ParseFinish ==
    /\ phase = "parse"
    /\ stack = <<>>
    /\ outcome' = ParseResult(ret, pos, partial)
    /\ phase' = "done"
    /\ UNCHANGED <<gramVars, todo, fault, input, partial, stateVars, stack, ret,
                   histVars>>

\* a second Parser.Parse with the same input, of the twin of the rule the
\* first one was given
ParseAgain ==
    /\ phase = "done"
    /\ first = NoFirst
    /\ \E t \in Twins :
          /\ t[1] = gname /\ t[2] = last.node
          /\ stack' = <<Frame(t[3], 0, NewValues)>>
    /\ first' = [rule |-> last.node, outcome |-> outcome, pos |-> pos]
    /\ phase' = "parse"
    /\ pos' = 0
    /\ maxPos' = 0
    /\ maxRule' = 0
    /\ curRef' = 0
    /\ memos' = EmptyMemos
    /\ values' = NewValues
    /\ ret' = NoRes
    /\ outcome' = NoOutcome
    /\ last' = NoCall
    /\ refLog' = {}
    /\ runs' = NoCount
    /\ writes' = NoCount
    /\ peak' = 0
    /\ UNCHANGED <<gramVars, todo, fault, input, partial>>

\* the Go runtime ends a recursion that does not end
StackOverflow ==
    /\ phase = "parse"
    /\ Len(stack) > MaxDepth
    /\ phase' = "panic"
    /\ fault' = "stack overflow"
    /\ UNCHANGED <<gramVars, todo, input, partial, stateVars, stack, ret, outcome,
                   histVars>>

MatchAny == Busy("matchAny") /\ Step(matchAnyMatch(Top, ret, CurState))
MatchString == Busy("matchString") /\ Step(matchStringMatch(Top, ret, CurState))
MatchString1 == Busy("matchString1") /\ Step(matchString1Match(Top, ret, CurState))
MatchString2 == Busy("matchString2") /\ Step(matchString2Match(Top, ret, CurState))
MatchRegexp == Busy("matchRegexp") /\ Step(matchRegexpMatch(Top, ret, CurState))
MatchCharRange == Busy("matchCharRange") /\ Step(matchCharRangeMatch(Top, ret, CurState))
MatchCharSet == Busy("matchCharSet") /\ Step(matchCharSetMatch(Top, ret, CurState))
MatchRunePredicate ==
    Busy("matchRunePredicate") /\ Step(matchRunePredicateMatch(Top, ret, CurState))
MatchEOS == Busy("matchEOS") /\ Step(matchEOSMatch(Top, ret, CurState))
MatchScan == Busy("matchScan") /\ Step(matchScanMatch(Top, ret, CurState))
MatchNotByte == Busy("matchNotByte") /\ Step(matchNotByteMatch(Top, ret, CurState))
MatchCheckAction ==
    Busy("matchCheckAction") /\ Step(matchCheckActionMatch(Top, ret, CurState))
MatchOr == Busy("matchOr") /\ Step(matchOrMatch(Top, ret, CurState))
MatchEither == Busy("matchEither") /\ Step(matchEitherMatch(Top, ret, CurState))
MatchBranches == Busy("matchBranch") /\ Step(matchBranchMatch(Top, ret, CurState))
MatchSeq == Busy("matchSeq") /\ Step(matchSeqMatch(Top, ret, CurState))
MatchBoth == Busy("matchBoth") /\ Step(matchBothMatch(Top, ret, CurState))
MatchThree == Busy("matchThree") /\ Step(matchThreeMatch(Top, ret, CurState))
MatchZeroOrMore == Busy("matchZeroOrMore") /\ Step(matchZeroOrMoreMatch(Top, ret, CurState))
MatchOneOrMore == Busy("matchOneOrMore") /\ Step(matchOneOrMoreMatch(Top, ret, CurState))
MatchMany == Busy("matchMany") /\ Step(matchManyMatch(Top, ret, CurState))
MatchOptional == Busy("matchOptional") /\ Step(matchOptionalMatch(Top, ret, CurState))
MatchCheck == Busy("matchCheck") /\ Step(matchCheckMatch(Top, ret, CurState))
MatchNot == Busy("matchNot") /\ Step(matchNotMatch(Top, ret, CurState))
MatchPrefixTable ==
    Busy("matchPrefixTable") /\ Step(matchPrefixTableMatch(Top, ret, CurState))
MatchRef == Busy("matchRef") /\ Step(matchRefMatch(Top, ret, CurState))
MatchScope == Busy("matchScope") /\ Step(matchScopeMatch(Top, ret, CurState))
MatchNamed == Busy("matchNamed") /\ Step(matchNamedMatch(Top, ret, CurState))
MatchAction == Busy("matchAction") /\ Step(matchActionMatch(Top, ret, CurState))
MatchApply == Busy("matchApply") /\ Step(matchApplyMatch(Top, ret, CurState))
MatchTransform == Busy("matchTransform") /\ Step(matchTransformMatch(Top, ret, CurState))
MatchCapture == Busy("matchCapture") /\ Step(matchCaptureMatch(Top, ret, CurState))

Next ==
    \/ SetRule
    \/ SetLabel
    \/ ParseStart
    \/ ParseFinish
    \/ ParseAgain
    \/ StackOverflow
    \/ MatchAny
    \/ MatchString
    \/ MatchString1
    \/ MatchString2
    \/ MatchRegexp
    \/ MatchCharRange
    \/ MatchCharSet
    \/ MatchRunePredicate
    \/ MatchEOS
    \/ MatchScan
    \/ MatchNotByte
    \/ MatchCheckAction
    \/ MatchOr
    \/ MatchEither
    \/ MatchBranches
    \/ MatchSeq
    \/ MatchBoth
    \/ MatchThree
    \/ MatchZeroOrMore
    \/ MatchOneOrMore
    \/ MatchMany
    \/ MatchOptional
    \/ MatchCheck
    \/ MatchNot
    \/ MatchPrefixTable
    \/ MatchRef
    \/ MatchScope
    \/ MatchNamed
    \/ MatchAction
    \/ MatchApply
    \/ MatchTransform
    \/ MatchCapture

Spec == Init /\ [][Next]_vars

(***************************************************************************)
(* Properties.  last is the match call that returned last, with the calls  *)
(* it made (kids); every call of a parse is last in the state its return   *)
(* leads to, so an invariant about last is a statement about every call.   *)
(***************************************************************************)
Returned == last.node # 0

KindOfLast == heap[last.node].kind

\* C1: a match call that returns matched = false leaves pos where it was
\* when the call began, whatever the sub-rules it called advanced
C1_NonMatchRestoresPos ==
    (Returned /\ ~last.res.matched) => last.exit = last.entry

\* a call failed after one of its sub-rules had matched and advanced
C1_Witness ==
    /\ Returned
    /\ ~last.res.matched
    /\ \E i \in 1..Len(last.kids) :
          last.kids[i].res.matched /\ last.kids[i].exit > last.entry

\* C2: Parse returns (nil, false, nil) when the root does not match,
\* (value, true, nil) when it matches and pos is the input size, and when it
\* matches with pos short of the input size (value, false, ErrInputNotConsumed
\* with maxPos and maxRule) without the partial option and (value, true, nil)
\* with it; an error never comes with matched = true
C2_ParseOutcomes ==
    phase = "done" =>
        /\ ~ret.matched => outcome = [val |-> NIL, matched |-> FALSE, err |-> <<>>]
        /\ (ret.matched /\ pos = Len(input)) =>
              outcome = [val |-> ret.value, matched |-> TRUE, err |-> <<>>]
        /\ (ret.matched /\ pos < Len(input) /\ ~partial) =>
              outcome = [val |-> ret.value, matched |-> FALSE,
                         err |-> <<"ErrInputNotConsumed", maxPos, maxRule>>]
        /\ (ret.matched /\ pos < Len(input) /\ partial) =>
              outcome = [val |-> ret.value, matched |-> TRUE, err |-> <<>>]
        /\ outcome.err # <<>> => ~outcome.matched

\* with the partial option, Parse returned matched = true for a root that
\* matched a proper prefix of the input
C2_Witness ==
    /\ phase = "done"
    /\ partial
    /\ ret.matched
    /\ pos < Len(input)
    /\ outcome.matched

FooBar == <<102, 111, 111, 98, 97, 114>>

\* C3: Or (matchOr and matchEither) calls its alternatives in order, each
\* from the position Or was entered at, stops at the first that matches and
\* returns its result, and fails only when all have failed; so
\* Or(S("foo"), S("foobar")) matches "foobar" up to 3, and Parse without the
\* partial option returns ErrInputNotConsumed with MaxPos 3
C3_OrderedChoice ==
    /\ (Returned /\ KindOfLast \in {"matchOr", "matchEither"}) =>
          LET rules == heap[last.node].rules
              kids == last.kids
              n == Len(kids)
          IN  /\ n >= 1
              /\ n <= Len(rules)
              /\ \A i \in 1..n : kids[i].node = rules[i] /\ kids[i].entry = last.entry
              /\ \A i \in 1..(n - 1) : ~kids[i].res.matched
              /\ last.res.matched =>
                    (kids[n].res.matched /\ last.res = kids[n].res
                        /\ last.exit = kids[n].exit)
              /\ ~last.res.matched => (n = Len(rules) /\ ~kids[n].res.matched)
    /\ (gname = "choice" /\ input = FooBar /\ last.node = 3) =>
          (last.res.matched /\ last.exit = 3)
    /\ (gname = "choice" /\ input = FooBar /\ last.node = 3 /\ phase = "done"
            /\ ~partial) =>
          outcome = [val |-> NIL, matched |-> FALSE,
                     err |-> <<"ErrInputNotConsumed", 3, 0>>]

\* an Or of three returned the match of its second alternative, the first
\* having failed and the third not tried
C3_Witness ==
    /\ Returned
    /\ KindOfLast = "matchOr"
    /\ Len(heap[last.node].rules) = 3
    /\ Len(last.kids) = 2
    /\ last.res.matched
    /\ last.exit > last.entry


(***************************************************************************)
(* The value a left-recursive expression grammar is to give: the operands  *)
(* of a1 op a2 op ... op ak folded from the left.                          *)
(***************************************************************************)
\* a1 op a2 op ... op ak, the operands numbers and the operators bytes of ops
WellFormed(inp, ops) ==
    /\ inp # <<>>
    /\ \A i \in 1..Len(inp) : IsDigit(inp[i]) \/ inp[i] \in ops
    /\ IsDigit(inp[1])
    /\ IsDigit(inp[Len(inp)])
    /\ \A i \in 1..(Len(inp) - 1) : ~(inp[i] \in ops /\ inp[i + 1] \in ops)

\* the offset of the last operator of inp, 0 if it has none
LastOp(inp, ops) ==
    LET at == {i \in 1..Len(inp) : inp[i] \in ops}
    IN  IF at = {} THEN 0 ELSE CHOOSE i \in at : \A j \in at : j <= i

\* f(...f(f(a1, a2), a3)..., ak) for the calculator (g = "calc": the operands
\* are ints and f adds) and for the precedence grammar (g = "branches": the
\* operands are strings and f builds an op)
RECURSIVE LeftFold(_, _, _)
LeftFold(g, inp, ops) ==
    LET k == LastOp(inp, ops)
        lhs == LeftFold(g, SubSeq(inp, 1, k - 1), ops)
        rhs == SubSeq(inp, k + 1, Len(inp))
    IN  IF g = "calc"
        THEN IF k = 0 THEN <<"int", Atoi(inp)>>
             ELSE <<"int", lhs[2] + Atoi(rhs)>>
        ELSE IF k = 0 THEN <<"str", inp>>
             ELSE <<"op", lhs, <<"str", <<inp[k]>>>>, <<"str", rhs>>>>

OneTwoThree == <<49, 43, 50, 43, 51>>

\* C4: with the directly left-recursive x = Or(Action(Seq(Named("i", x), op,
\* Named("j", atom)), f), atom), and with the same alternatives given through
\* Branches, Parse of a1 op a2 op ... op ak matches, consumes the whole input
\* and returns the fold from the left: "3" gives 3, "3+4" gives 7, and
\* "1+2+3" gives op{op{1,+,2},+,3}
C4_LeftRecursionFolds ==
    /\ (phase = "done" /\ gname = "calc" /\ WellFormed(input, {43})) =>
          outcome = [val |-> LeftFold("calc", input, {43}), matched |-> TRUE,
                     err |-> <<>>]
    /\ (phase = "done" /\ gname = "branches" /\ WellFormed(input, {43, 45})) =>
          /\ outcome = [val |-> LeftFold("branches", input, {43, 45}),
                        matched |-> TRUE, err |-> <<>>]
          /\ pos = Len(input)
    /\ (phase = "done" /\ gname = "calc" /\ input = <<51>>) =>
          outcome.val = <<"int", 3>>
    /\ (phase = "done" /\ gname = "calc" /\ input = <<51, 43, 52>>) =>
          outcome.val = <<"int", 7>>
    /\ (phase = "done" /\ gname = "branches" /\ input = OneTwoThree) =>
          outcome.val = <<"op", <<"op", <<"str", <<49>>>>, <<"str", <<43>>>>,
                                      <<"str", <<50>>>>>>,
                          <<"str", <<43>>>>, <<"str", <<51>>>>>>

\* Parse of "1+2+3" with the Branches grammar returned a value, its left
\* operand an op
C4_Witness ==
    /\ phase = "done"
    /\ gname = "branches"
    /\ input = OneTwoThree
    /\ leftRec[3]
    /\ outcome.matched
    /\ Tag(outcome.val) = "op"
    /\ Tag(outcome.val[2]) = "op"


(***************************************************************************)
(* Left recursion as the rule graph has it: the rules in the left-most     *)
(* positions of a rule, and what is reachable through them.                *)
(***************************************************************************)
\* the first element of a sequence, every alternative of a choice, the
\* operand of a unary rule, the body of a bound Ref
LeftMost(h, rr, m) ==
    LET k == h[m].kind
        rules == h[m].rules
    IN  IF k \in {"matchOr", "matchEither", "matchBranch", "matchPrefixTable"}
        THEN {rules[i] : i \in 1..Len(rules)}
        ELSE IF k \in {"matchSeq", "matchBoth", "matchThree"} \cup UnaryKinds
        THEN (IF rules = <<>> THEN {} ELSE {rules[1]})
        ELSE IF k = "matchRef" THEN {rr[m]} \ {0}
        ELSE {}

RECURSIVE LeftReach(_, _, _, _)
LeftReach(h, rr, frontier, seen) ==
    IF frontier \subseteq seen THEN seen
    ELSE LeftReach(h, rr, UNION {LeftMost(h, rr, m) : m \in frontier \ seen},
                   seen \cup frontier)

\* r is body, or body reaches r through left-most positions only
Reachable(h, rr, r, body) == r \in LeftReach(h, rr, {body}, {})

\* a bound Ref that is not left-recursive: its body does not reach it
\* through left-most positions, and its flag is not set
Ordinary(r) ==
    /\ refRule[r] # 0
    /\ ~leftRec[r]
    /\ ~Reachable(heap, refRule, r, refRule[r])

SameReturn(e1, e2) == e1.res = e2.res /\ e1.exit = e2.exit

AtOrdinaryRef ==
    /\ phase = "parse"
    /\ stack # <<>>
    /\ Len(stack) <= MaxDepth
    /\ heap[Top.node].kind = "matchRef"
    /\ Ordinary(Top.node)

ThreePlusFour == <<51, 43, 52>>

Terminals ==
    {"matchAny", "matchString", "matchString1", "matchString2", "matchRegexp",
     "matchCharRange", "matchCharSet", "matchRunePredicate", "matchEOS",
     "matchScan", "matchNotByte"}

\* C7: a call of Set that binds a Ref leaves it flagged left-recursive
\* whenever the body reaches the Ref through left-most positions only,
\* whatever the graph of the rules, shared nodes included; a Ref bound to a
\* terminal is not flagged
C7_SetFlagsLeftRecursion ==
    [][ (phase = "build" /\ todo # <<>> /\ refRule[Head(todo).ref] = 0
            /\ phase' = "build") =>
            LET r == Head(todo).ref
            IN  /\ Reachable(heap', refRule', r, refRule'[r]) => leftRec'[r]
                /\ heap'[refRule'[r]].kind \in Terminals => ~leftRec'[r]
      ]_vars


\* C8: Set on a Ref that is bound, called on the Ref or through Labels.Set,
\* panics and leaves the rule and the flag of the Ref as they were, so that
\* a Ref once bound stays as bound; matching a Ref that was never bound
\* panics and returns no result
C8_BoundOnce ==
    [][ /\ (phase = "build" /\ todo # <<>> /\ refRule[Head(todo).ref] # 0) =>
              /\ phase' = "panic"
              /\ fault' = "rule already set"
              /\ heap' = heap
        /\ \A r \in DOMAIN refRule :
              refRule[r] # 0 => (refRule'[r] = refRule[r] /\ leftRec'[r] = leftRec[r])
        /\ (phase = "parse" /\ stack # <<>> /\ Len(stack) <= MaxDepth
                /\ heap[Top.node].kind = "matchRef" /\ refRule[Top.node] = 0) =>
              /\ phase' = "panic"
              /\ fault' = "unset ref detected"
              /\ stack' = stack
              /\ ret' = ret
              /\ refLog' = refLog
      ]_vars

\* Labels.Set on the name of a Ref bound to S("1") panicked; the rule it
\* was given would have made the Ref left-recursive
C8_Witness ==
    /\ phase = "panic"
    /\ fault = "rule already set"
    /\ todo # <<>>
    /\ Head(todo).via = "Labels.Set"
    /\ refRule[Head(todo).ref] = 1
    /\ ~leftRec[Head(todo).ref]
    /\ Reachable(heap, [refRule EXCEPT ![Head(todo).ref] = Head(todo).body],
                 Head(todo).ref, Head(todo).body)

Foo == <<102, 111, 111>>

Blah == <<98, 108, 97, 104>>

\* C9: Check, Not and matchNotByte return with pos where it was on entry,
\* whatever their rule did; Check returns the matched flag of its rule; Not
\* returns false at the end of the input and otherwise the negation of the
\* matched flag of its rule (for matchNotByte: of S of its byte).  So
\* Seq(Not(S("b")), S("foo")) matches "foo" and does not match "blah"
C9_Predicates ==
    /\ (Returned /\ KindOfLast \in {"matchCheck", "matchNot", "matchNotByte"}) =>
          last.exit = last.entry
    /\ (Returned /\ KindOfLast = "matchCheck") =>
          /\ Len(last.kids) = 1
          /\ last.kids[1].node = heap[last.node].rules[1]
          /\ last.kids[1].entry = last.entry
          /\ last.res.matched = last.kids[1].res.matched
    /\ (Returned /\ KindOfLast = "matchNot") =>
          IF last.entry >= Len(input)
          THEN ~last.res.matched /\ last.kids = <<>>
          ELSE /\ Len(last.kids) = 1
               /\ last.kids[1].node = heap[last.node].rules[1]
               /\ last.kids[1].entry = last.entry
               /\ last.res.matched = ~last.kids[1].res.matched
    /\ (Returned /\ KindOfLast = "matchNotByte") =>
          IF last.entry >= Len(input)
          THEN ~last.res.matched
          ELSE last.res.matched = (input[last.entry + 1] # heap[last.node].str[1])
    /\ (gname = "preds" /\ last.node = 9 /\ input = Foo) => last.res.matched
    /\ (gname = "preds" /\ last.node = 9 /\ input = Blah) => ~last.res.matched

\* a Not returned matched = false, at the position it was entered at, after
\* its rule had matched and advanced
C9_Witness ==
    /\ Returned
    /\ KindOfLast = "matchNot"
    /\ ~last.res.matched
    /\ Len(last.kids) = 1
    /\ last.kids[1].res.matched
    /\ last.kids[1].exit > last.entry
    /\ last.exit = last.entry

\* the value of a sequence: that of the last sub-match with a value, or nil
SeqValue(kids) ==
    LET with == {i \in 1..Len(kids) : kids[i].res.value # NIL}
    IN  IF with = {} THEN NIL
        ELSE kids[CHOOSE i \in with : \A j \in with : j <= i].res.value

\* C10: Seq of any number of rules (matchSeq, matchBoth, matchThree) calls
\* its rules in order, each where the one before ended, up to the first that
\* fails; it matches exactly when all have matched; when one fails pos is
\* back where Seq was entered; when it matches its value is that of the last
\* sub-match with a non-nil value, nil if there is none
C10_Sequence ==
    (Returned /\ KindOfLast \in {"matchSeq", "matchBoth", "matchThree"}) =>
        LET rules == heap[last.node].rules
            kids == last.kids
            n == Len(kids)
        IN  /\ n >= 1
            /\ n <= Len(rules)
            /\ \A i \in 1..n :
                  /\ kids[i].node = rules[i]
                  /\ kids[i].entry = IF i = 1 THEN last.entry ELSE kids[i - 1].exit
            /\ \A i \in 1..(n - 1) : kids[i].res.matched
            /\ last.res.matched = (n = Len(rules) /\ kids[n].res.matched)
            /\ ~last.res.matched => last.exit = last.entry
            /\ last.res.matched =>
                  (last.exit = kids[n].exit /\ last.res.value = SeqValue(kids))

\* a sequence of four matched with the value of its third rule, the fourth
\* having matched without a value
C10_Witness ==
    /\ Returned
    /\ KindOfLast = "matchSeq"
    /\ Len(last.kids) = 4
    /\ last.res.matched
    /\ last.kids[4].res.value = NIL
    /\ last.kids[3].res.value # NIL
    /\ last.res.value = last.kids[3].res.value
    /\ last.res.value # last.kids[1].res.value



(***************************************************************************)
(* Repetition.  The call record of a Star, Plus or Many holds in kids the  *)
(* last iteration of its rule that matched, if any.                        *)
(***************************************************************************)
\* C11: Star never fails and its value is that of the last iteration of its
\* rule that matched, nil when none did; Plus fails exactly when the first
\* attempt of its rule fails, and otherwise has the value of the last
\* iteration that matched
C11_RepetitionValue ==
    /\ (Returned /\ KindOfLast = "matchZeroOrMore") =>
          /\ last.res.matched
          /\ last.res.value =
                (IF last.kids = <<>> THEN NIL ELSE last.kids[1].res.value)
    /\ (Returned /\ KindOfLast = "matchOneOrMore") =>
          /\ last.res.matched <=> last.kids # <<>>
          /\ last.res.matched => last.res.value = last.kids[1].res.value


\* the program runs on for as long as it has a step to take
FairSpec == Spec /\ WF_vars(Next)

\* a call of Star, Plus or Many is active
InRepetition ==
    /\ phase = "parse"
    /\ \E i \in 1..Len(stack) : heap[stack[i].node].kind \in Repeats

\* C12: Star, Plus and Many end on every input, also over a rule that
\* matches without advancing: a repetition that is active returns (or the
\* parse ends in a panic)
C12_RepetitionTerminates == InRepetition ~> ~InRepetition


\* C13: when Many(r, min, max, fn) returns matched, the number of iterations
\* of r that matched (the length of the slice fn is given) is at least min
\* and, unless max is -1, at most max; it fails only when fewer than min
\* iterations matched, and then pos is where it was at entry
C13_ManyCount ==
    (Returned /\ KindOfLast = "matchMany") =>
        LET min == heap[last.node].lo
            max == heap[last.node].hi
        IN  /\ last.res.matched =>
                  /\ last.n >= min
                  /\ max # -1 => last.n <= max
            /\ ~last.res.matched => (last.n < min /\ last.exit = last.entry)



(***************************************************************************)
(* Scopes.  A call record holds the scope that was current when the call   *)
(* began (vin) and the one current when it returned (vout).                *)
(***************************************************************************)
\* C14: when Scope(r), Action(r, fn) or Apply(r, v) returns, matched or not,
\* the current scope is the one that was current at its entry, with the
\* entries it had then: a name assigned inside cannot be read outside
C14_ScopeRestored ==
    (Returned /\ KindOfLast = "matchScope") =>
        /\ last.vout = last.vin
        /\ \A i \in 1..Len(last.kids) : last.kids[i].vin = NewValues

\* a Scope entered with a name in the current scope returned after a name
\* was assigned inside it, and that name cannot be read in the current scope
C14_Witness ==
    /\ Returned
    /\ KindOfLast = "matchScope"
    /\ last.res.matched
    /\ ValuesGet(last.vin, "i") # NIL
    /\ Len(last.kids) = 1
    /\ ValuesGet(last.kids[1].vout, "j") # NIL
    /\ ValuesGet(last.vout, "j") = NIL
    /\ ValuesGet(last.vout, "i") # NIL

\* C15: matching a Ref gives its body a scope of its own: when the Ref
\* returns, the scope that was current when it was invoked is current again
\* and holds what it held, so a name assigned in the body is not in it
C15_RefScope ==
    (Returned /\ KindOfLast = "matchRef") =>
        last.vout = last.vin


\* the names the rules of the heap assign, and one that none assigns
Names == {heap[m].name : m \in {k \in 1..Len(heap) : heap[k].kind = "matchNamed"}}
            \cup {"none"}

\* the scope v has an entry of that name
HasName(v, name) ==
    IF v.cv THEN \E i \in 1..Len(v.ents) : v.ents[i][1] = name
    ELSE name \in DOMAIN v.map

\* C16: a scope takes any number of assignments to distinct names: a new
\* scope gives nil for every name, and a Named that assigns a name the scope
\* does not hold leaves Get of that name the value assigned and Get of every
\* other name what it was, also when the assignment is the one that turns
\* the compact form into the map
C16_ScopeKeepsAll ==
    [][ /\ (Busy("matchScope") /\ Top.pc = 0) =>
              \A n \in Names : ValuesGet(values', n) = NIL
        /\ (Busy("matchNamed") /\ Top.pc = 1 /\ ret.matched
                /\ ~HasName(values, heap[Top.node].name)) =>
              \A n \in Names :
                  ValuesGet(values', n) =
                      (IF n = heap[Top.node].name THEN ret.value
                       ELSE ValuesGet(values, n)) ]_vars

\* a scope in the map form holds seven names, the sixth and the seventh
\* with the values assigned to them
C16_Witness ==
    /\ ~values.cv
    /\ Cardinality(DOMAIN values.map) = 7
    /\ ValuesGet(values, "n1") = <<"str", <<97>>>>
    /\ ValuesGet(values, "n6") = <<"str", <<102>>>>
    /\ ValuesGet(values, "n7") = <<"str", <<103>>>>
    /\ ValuesGet(values, "none") = NIL



(***************************************************************************)
(* Values made by functions.                                               *)
(***************************************************************************)
\* v, told its position if it can be told
Placed(v, start, end) == IF IsPositioner(v) THEN SetPosition(v, start, end) ELSE v

C18_ApplyPlaced ==
    (Returned /\ KindOfLast = "matchApply" /\ last.res.matched
        /\ IsPositioner(last.res.value)) =>
        last.res.value = SetPosition(last.res.value, last.entry, last.exit)

\* the value Apply is to leave in the field ft given the scope v: the value
\* of the scope under the field's key if there is one and the field can
\* take it, else the default of the field
FieldWanted(ft, v) ==
    LET val == ValuesGet(v, IF ft.ast = "" THEN ft.name ELSE ft.ast)
    IN  IF ft.exported /\ val # NIL /\ (ft.type = "any" \/ Tag(val) = ft.type)
        THEN val
        ELSE ZeroOf(ft.type)

\* C19: when the rule of Apply(r, v) matches, Apply matches with a new
\* record whose exported fields hold the values of the scope under their
\* keys (the ast tag, else the field's name) where the scope has one the
\* field can take, and their defaults otherwise; a value the field cannot
\* take raises no fault.  Apply(Named("val", numLit), testIntNode{}) on a
\* number gives Val that number
C19_ApplyFields ==
    /\ fault # "reflect: value not assignable"
    /\ (Returned /\ KindOfLast = "matchApply" /\ last.kids[1].res.matched) =>
          LET typ == heap[last.node].fn
              fts == TypeFields(typ)
              rec == last.res.value
          IN  /\ last.res.matched
              /\ typ = "testIntNode" =>
                    (Tag(rec) = "node"
                        /\ <<"int", rec[2]>> = FieldWanted(fts[1], last.vout))
              /\ typ # "testIntNode" =>
                    (Tag(rec) = "rec"
                        /\ \A i \in 1..Len(fts) :
                              fts[i].exported =>
                                  rec[3][i] = FieldWanted(fts[i], last.vout))
    /\ (Returned /\ gname = "tool" /\ last.node = 11 /\ input = <<52, 50>>) =>
          (last.res.matched /\ last.res.value[2] = 42)



(***************************************************************************)
(* The furthest position.                                                  *)
(***************************************************************************)
\* C20: within a parse maxPos never decreases, changes only in the step in which a
\* terminal matches and advances pos (and then to the new pos), and is at
\* every point the largest offset pos has held in the parse, the branches
\* given up and the lookaheads included; Or(Seq(D, "-", D), Seq(D, "+", D),
\* Seq(D, "*", "2")) on "3*4" does not match and leaves maxPos = 2
C20_MaxPos ==
    /\ [](maxPos = peak)
    /\ [][(maxPos' # maxPos /\ phase # "done") =>
             /\ maxPos' > maxPos
             /\ phase = "parse" /\ stack # <<>>
             /\ heap[Top.node].kind \in Terminals
             /\ ret'.matched
             /\ pos' > pos
             /\ maxPos' = pos']_vars
    /\ []((phase = "done" /\ gname = "furthest" /\ input = <<51, 42, 52>>) =>
             (~ret.matched /\ ~outcome.matched /\ maxPos = 2))

\* the parse of "3*4" ended without a match, pos back at 0 and maxPos at 2
C20_Witness ==
    /\ phase = "done"
    /\ gname = "furthest"
    /\ input = <<51, 42, 52>>
    /\ ~ret.matched
    /\ pos = 0
    /\ maxPos = 2



(***************************************************************************)
(* Scan and the bounds of pos.                                             *)
(***************************************************************************)
\* C21: Scan(fn), wherever it is invoked, the end of the input included,
\* gives fn the rest of the input; it fails, pos unchanged, exactly when fn
\* returns -1, and when fn returns k >= 0 it matches and advances pos by k
C21_Scan ==
    (Returned /\ KindOfLast = "matchScan") =>
        LET k == ScanFn(heap[last.node].fn, Cur(input, last.entry))
        IN  /\ last.res.matched <=> k # -1
            /\ last.res.matched => last.exit = last.entry + k
            /\ ~last.res.matched => last.exit = last.entry

\* C23: pos is never below 0 and never beyond the size of the input
C23_PosInBounds == phase \in {"parse", "done"} => (0 <= pos /\ pos <= Len(input))



(***************************************************************************)
(* Seed growth.                                                            *)
(***************************************************************************)
\* a left-recursive Ref is on top of the stack and grows a seed: it has no
\* memo entry yet at pos, or the rule it called has returned to it
Seeding ==
    /\ phase = "parse" /\ stack # <<>>
    /\ heap[Top.node].kind = "matchRef"
    /\ refRule[Top.node] # 0 /\ leftRec[Top.node]
    /\ \/ Top.pc = 0 /\ <<pos, Top.node>> \notin DOMAIN memos
       \/ Top.pc = 1

MemoWith(key, mr) ==
    [k \in DOMAIN memos \cup {key} |-> IF k = key THEN mr ELSE memos[k]]

\* C22: seed growth of a left-recursive Ref at P: the memo is seeded with
\* {matched=false, end_pos=P}; a round is accepted and overwrites the memo
\* only when it ends strictly further than the one recorded; the first round
\* that does not grow ends the loop, pos is then the last accepted end_pos
\* and the result the last accepted result; the body is matched at most
\* input_size - P + 1 times
C22_SeedGrowth ==
    [][ /\ (Seeding /\ Top.pc = 0) =>
              /\ memos' = MemoWith(<<pos, Top.node>>,
                                   [result |-> NoRes, endPos |-> pos, used |-> 0])
              /\ pos' = pos
              /\ Len(stack') = Len(stack) + 1
              /\ stack'[Len(stack')].node = refRule[Top.node]
        /\ (Seeding /\ Top.pc = 1) =>
              LET key == <<Top.mark, Top.node>>
                  mr == memos[key]
              IN  /\ key \in DOMAIN memos
                  /\ pos > mr.endPos =>
                        /\ memos' = MemoWith(key, [result |-> ret, endPos |-> pos,
                                                   used |-> mr.used])
                        /\ pos' = Top.mark
                        /\ Len(stack') = Len(stack) + 1
                        /\ stack'[Len(stack')].node = refRule[Top.node]
                  /\ pos <= mr.endPos =>
                        /\ memos' = memos
                        /\ pos' = mr.endPos
                        /\ ret' = mr.result
                        /\ Len(stack') = Len(stack) - 1
        /\ \A k \in DOMAIN runs' :
              leftRec[k[2]] => runs'[k] <= Len(input) - k[1] + 1
      ]_vars

\* the seed of the calculator's Ref at 0 has grown over "1+2+3" in three
\* accepted rounds; the fourth did not grow and ended the loop
C22_Witness ==
    /\ Returned /\ KindOfLast = "matchRef" /\ last.ev = "stop"
    /\ input = OneTwoThree /\ last.entry = 0 /\ last.exit = 5
    /\ last.res.matched
    /\ runs[<<0, last.node>>] = 4



(***************************************************************************)
(* Values of failures and of negations.                                    *)
(***************************************************************************)
\* C24: every result with matched=false carries the value nil, and a Not
\* that matches has the value nil whatever its rule is, so that no value
\* made inside a negation becomes the value of a Maybe around it
C24_FailureHasNoValue ==
    Returned =>
        /\ ~last.res.matched => last.res.value = NIL
        /\ (KindOfLast \in {"matchNot", "matchNotByte"} /\ last.res.matched) =>
              last.res.value = NIL
        /\ (KindOfLast = "matchOptional"
                /\ heap[heap[last.node].rules[1]].kind = "matchNot") =>
              last.res.value = NIL



(***************************************************************************)
(* What Get reads.                                                         *)
(***************************************************************************)
\* C25: after a Named has assigned a name, Get of that name in the scope
\* gives the value just assigned, whether the name was assigned before or
\* not and whether the scope is in its compact form or in its map form
C25_GetReadsLatest ==
    (Returned /\ KindOfLast = "matchNamed" /\ last.res.matched) =>
        ValuesGet(last.vout, heap[last.node].name) = last.res.value

OnePlus == <<49, 43>>

\* C26: a call that fails leaves in the scope exactly the entries the scope
\* had when the call was entered, so that after the alternative
\* Seq(Named("i", A), S("-")) has failed on "1+" and Seq(Named("i", B), S("+"))
\* has matched, the function of the Action around them reads B's value for i
C26_FailureRestoresScope ==
    /\ (Returned /\ ~last.res.matched) => last.vout = last.vin
    /\ (phase = "done" /\ gname = "names" /\ last.node = 38 /\ input = OnePlus) =>
          (outcome.matched /\ outcome.val = <<"str", <<49>>>>)



(***************************************************************************)
(* Memoized Refs and their rules.                                          *)
(***************************************************************************)
\* C27: in a grammar without left recursion whose functions read only their
\* scope, a rule with memoized Refs and the same rule with the rule of every
\* Ref in the place of the Ref return the same matched flag and value and
\* end at the same pos for every input, also when a Ref whose rule has a
\* Named is answered from the memo in another scope than the one its rule
\* was matched in
C27_MemoTransparent ==
    (phase = "done" /\ first # NoFirst) =>
        /\ outcome.matched = first.outcome.matched
        /\ outcome.val = first.outcome.val
        /\ pos = first.pos



(***************************************************************************)
(* Left recursion: the seed that matches nothing, and what Set flags.      *)
(***************************************************************************)
\* C28: a left-recursive Ref matched at P matches whenever its rule matched
\* at P in the round in which the Ref's own invocation at P failed (the
\* seed), also when that round consumed nothing
C28_EmptySeedMatches ==
    (Returned /\ KindOfLast = "matchRef" /\ last.ev = "stop"
        /\ last.kids # <<>> /\ last.kids[1].res.matched) =>
        /\ last.res.matched
        /\ last.exit >= last.kids[1].exit

\* C29: Set flags a Ref only if the rule reaches the Ref through left-most
\* positions: a Ref that comes after a first element of a Seq is not
\* flagged, whether the Seq has two, three or more elements
C29_FlagOnlyLeftMost ==
    [][ (phase = "build" /\ todo # <<>> /\ refRule[Head(todo).ref] = 0
            /\ phase' = "build") =>
            LET r == Head(todo).ref
            IN  leftRec'[r] => Reachable(heap', refRule', r, refRule'[r])
      ]_vars

\* C30: the first Set on a Ref that has no rule ends without a fault for
\* every rule it is given, a rule with a CheckAction in it included, and
\* leaves the Ref bound to the rule with its flag defined
C30_SetCompletes ==
    [][ (phase = "build" /\ todo # <<>> /\ refRule[Head(todo).ref] = 0) =>
            LET r == Head(todo).ref
            IN  /\ fault' = ""
                /\ phase' = "build"
                /\ todo' = Tail(todo)
                /\ refRule'[r] # 0
                /\ leftRec'[r] \in BOOLEAN
      ]_vars

=============================================================================
